---------------------------- MODULE Spec2Model ----------------------------
(***************************************************************************)
(* Model of the transform stage (src/src/transform/transform.py) and of    *)
(* the load stage (src/src/load/load_to_bigquery.py).                      *)
(*                                                                         *)
(* Python str values are TLA+ strings; a character is a string of length   *)
(* one, read with Ch.  An md5 digest is modelled as an ideal digest: the   *)
(* text "md5(" preimage ")", equal exactly when the preimages are equal.   *)
(***************************************************************************)
EXTENDS Integers, Sequences, FiniteSets, TLC

VARIABLES
    disk,        \* load: names of the files in data/processed
    content,     \* load: lines of every file on disk that main may read
    all_files,   \* load: main's sorted listing
    idx,         \* load: number of files of all_files already handled
    loaded,      \* load: main's counter
    skipped,     \* load: main's counter
    failed,      \* load: main's counter
    outcome,     \* load: what main printed for each handled file of this run
    jobs,        \* load: load jobs that completed in this run, with their table
    written,     \* load: the _bqload files this run created
    pc,          \* position of the running program
    prevFailed,  \* load: files that failed in the previous run of main
    raw,         \* transform: data/raw, file name -> what the file holds
    raw_files,   \* transform: main's sorted listing (files)
    handled,     \* transform: number of files of the listing already handled
    processed,   \* transform: data/processed, file name -> records written
    tpc,         \* transform: position of main
    clock,       \* transform: the last instant datetime.utcnow() returned
    previous,    \* transform: <<data/processed as the previous complete run left it>>
    input,       \* the arguments of the function under study
    output       \* <<what it returned>>, and <<>> before the call

loadVars == <<disk, content, all_files, idx, loaded, skipped, failed,
              outcome, jobs, written, pc, prevFailed>>

transformVars == <<raw, raw_files, handled, processed, tpc, clock, previous>>

fnVars == <<input, output>>

vars == <<loadVars, transformVars, fnVars>>

\* what the load run leaves alone
notLoad == <<transformVars, fnVars>>

\* what the transform run leaves alone
notTransform == <<loadVars, fnVars>>

\* what the study of one function leaves alone
notFn == <<loadVars, transformVars>>

-----------------------------------------------------------------------------
(* Python str operations *)

Ch(s, i) == SubSeq(s, i, i)

Digits == {"0", "1", "2", "3", "4", "5", "6", "7", "8", "9"}

LowerLetters == {"a", "b", "c", "d", "e", "f", "g", "h", "i", "j", "k", "l", "m",
                 "n", "o", "p", "q", "r", "s", "t", "u", "v", "w", "x", "y", "z"}

UpperSeq == <<"A", "B", "C", "D", "E", "F", "G", "H", "I", "J", "K", "L", "M",
              "N", "O", "P", "Q", "R", "S", "T", "U", "V", "W", "X", "Y", "Z">>

LowerSeq == <<"a", "b", "c", "d", "e", "f", "g", "h", "i", "j", "k", "l", "m",
              "n", "o", "p", "q", "r", "s", "t", "u", "v", "w", "x", "y", "z">>

UpperLetters == {UpperSeq[i] : i \in 1..26}

\* the printable ASCII characters but the grave accent, in code point order
CodePoints == <<
    " ", "!", "\"", "#", "$", "%", "&", "'", "(", ")", "*", "+",
    ",", "-", ".", "/", "0", "1", "2", "3", "4", "5", "6", "7",
    "8", "9", ":", ";", "<", "=", ">", "?", "@", "A", "B", "C",
    "D", "E", "F", "G", "H", "I", "J", "K", "L", "M", "N", "O",
    "P", "Q", "R", "S", "T", "U", "V", "W", "X", "Y", "Z", "[",
    "\\", "]", "^", "_", "a", "b", "c", "d", "e", "f", "g",
    "h", "i", "j", "k", "l", "m", "n", "o", "p", "q", "r", "s",
    "t", "u", "v", "w", "x", "y", "z", "{", "|", "}", "~" >>

Ord(c) == CHOOSE i \in 1..Len(CodePoints) : CodePoints[i] = c

\* body on the value of an expression: the binder holds the value, so that
\* the expression is evaluated once however many times body reads it
With(value, Body(_)) == CHOOSE result \in {Body(x) : x \in {value}} : TRUE

\* "".join(pieces), halving the sequence
RECURSIVE JoinAll(_)
JoinAll(pieces) ==
    With(pieces, LAMBDA held :
        IF held = <<>> THEN ""
        ELSE IF Len(held) = 1 THEN held[1]
        ELSE With(Len(held) \div 2, LAMBDA half :
                JoinAll(SubSeq(held, 1, half))
                \o JoinAll(SubSeq(held, half + 1, Len(held)))))

StartsWith(s, p) == Len(p) <= Len(s) /\ SubSeq(s, 1, Len(p)) = p

EndsWith(s, p) == Len(p) <= Len(s) /\ SubSeq(s, Len(s) - Len(p) + 1, Len(s)) = p

\* p in s
Contains(s, p) == \E i \in 1..(Len(s) - Len(p) + 1) : SubSeq(s, i, i + Len(p) - 1) = p

\* s.replace(old, new), old not empty: every occurrence, left to right
RECURSIVE Replace(_, _, _)
Replace(s, old, new) ==
    With(s, LAMBDA rest :
        IF Len(old) = 1
        THEN JoinAll([i \in 1..Len(rest) |->
                        IF Ch(rest, i) = old THEN new ELSE Ch(rest, i)])
        ELSE With({i \in 1..(Len(rest) - Len(old) + 1) :
                      SubSeq(rest, i, i + Len(old) - 1) = old}, LAMBDA found :
                IF found = {} THEN rest
                ELSE With(CHOOSE i \in found : \A j \in found : i <= j, LAMBDA first :
                        SubSeq(rest, 1, first - 1) \o new
                        \o Replace(SubSeq(rest, first + Len(old), Len(rest)), old, new))))

LowerChar(c) ==
    IF c \in UpperLetters
    THEN LowerSeq[CHOOSE i \in 1..26 : UpperSeq[i] = c]
    ELSE c

\* s.lower()
Lower(s) ==
    With(s, LAMBDA rest : JoinAll([i \in 1..Len(rest) |-> LowerChar(Ch(rest, i))]))

\* s.count(c), c one character
Count(s, c) ==
    With(s, LAMBDA rest : Cardinality({i \in 1..Len(rest) : Ch(rest, i) = c}))

\* s.strip(): leading and trailing white space removed
LStrip(s, cs) ==
    With(s, LAMBDA rest :
        With({i \in 1..Len(rest) : Ch(rest, i) \notin cs}, LAMBDA kept :
            IF kept = {} THEN ""
            ELSE SubSeq(rest, CHOOSE i \in kept : \A j \in kept : i <= j, Len(rest))))

RStrip(s, cs) ==
    With(s, LAMBDA rest :
        With({i \in 1..Len(rest) : Ch(rest, i) \notin cs}, LAMBDA kept :
            IF kept = {} THEN ""
            ELSE SubSeq(rest, 1, CHOOSE i \in kept : \A j \in kept : i >= j)))

Strip(s, cs) == RStrip(LStrip(s, cs), cs)

\* the white space str.strip() removes, of the characters the model writes
WhiteSpace == {" ", "\t", "\n", "\r"}

\* s < t in Python's order of str (code points, then length)
StrLess(s, t) ==
    With(<<s, t>>, LAMBDA pair :
        With({i \in 1..Len(pair[1]) :
                 i <= Len(pair[2]) /\ Ch(pair[1], i) # Ch(pair[2], i)}, LAMBDA apart :
            IF apart = {} THEN Len(pair[1]) < Len(pair[2])
            ELSE With(CHOOSE i \in apart : \A j \in apart : i <= j, LAMBDA first :
                    Ord(Ch(pair[1], first)) < Ord(Ch(pair[2], first)))))

\* sorted(S) for a set of str
RECURSIVE Sorted(_)
Sorted(S) ==
    With(S, LAMBDA left :
        IF left = {} THEN <<>>
        ELSE With(CHOOSE x \in left : \A y \in left \ {x} : StrLess(x, y),
                  LAMBDA least : <<least>> \o Sorted(left \ {least})))

Range(q) == {q[i] : i \in 1..Len(q)}


-----------------------------------------------------------------------------
(* Python values: [t |-> type, v |-> payload].  A float is held as its value *)
(* times ten (the floats of the model have one decimal), a dict as the       *)
(* sequence of its <<key, value>> items in insertion order.                  *)

PyNone == [t |-> "none", v |-> 0]

PyInt(n) == [t |-> "int", v |-> n]

PyFloat(tenths) == [t |-> "float", v |-> tenths]

PyStr(s) == [t |-> "str", v |-> s]

PyBool(b) == [t |-> "bool", v |-> b]

PyList(q) == [t |-> "list", v |-> q]

PyTuple(q) == [t |-> "tuple", v |-> q]

PyDict(items) == [t |-> "dict", v |-> items]

\* an exception, where a value was expected
Raised == [t |-> "raised", v |-> 0]

IsRaised(x) == x.t = "raised"

IsNone(x) == x.t = "none"

IsDict(x) == x.t = "dict"

IsList(x) == x.t = "list"

HasKey(d, k) == With(d.v, LAMBDA items : \E i \in 1..Len(items) : items[i][1] = k)

\* d.get(k, default)
GetOr(d, k, default) ==
    With(d.v, LAMBDA items :
        IF \E i \in 1..Len(items) : items[i][1] = k
        THEN items[CHOOSE i \in 1..Len(items) : items[i][1] = k][2]
        ELSE default)

\* d.get(k)
Get(d, k) == GetOr(d, k, PyNone)

\* d[k] = x on the items of a dict
SetItem(items, k, x) ==
    With(items, LAMBDA held :
        IF \E i \in 1..Len(held) : held[i][1] = k
        THEN [i \in 1..Len(held) |-> IF held[i][1] = k THEN <<k, x>> ELSE held[i]]
        ELSE Append(held, <<k, x>>))

\* d.update(more) on the items of a dict
RECURSIVE Update(_, _)
Update(items, more) ==
    With(more, LAMBDA rest :
        IF rest = <<>> THEN items
        ELSE Update(SetItem(items, rest[1][1], rest[1][2]), Tail(rest)))

Keys(d) == {d.v[i][1] : i \in 1..Len(d.v)}

\* bool(x) is False
Falsy(x) ==
    With(x, LAMBDA a :
        \/ a.t = "none"
        \/ a.t \in {"int", "float"} /\ a.v = 0
        \/ a.t = "bool" /\ ~a.v
        \/ a.t = "str" /\ a.v = ""
        \/ a.t \in {"list", "dict", "tuple"} /\ a.v = <<>>)

\* a or b
Or(a, b) == With(a, LAMBDA first : IF Falsy(first) THEN b ELSE first)

DigitSeq == <<"0", "1", "2", "3", "4", "5", "6", "7", "8", "9">>

\* str(n) for n >= 0
RECURSIVE NatToStr(_)
NatToStr(n) ==
    IF n < 10 THEN DigitSeq[n + 1]
    ELSE NatToStr(n \div 10) \o DigitSeq[(n % 10) + 1]

IntToStr(n) == IF n < 0 THEN "-" \o NatToStr(-n) ELSE NatToStr(n)

\* repr of the float whose value times ten is tenths
FloatToStr(tenths) ==
    LET a == IF tenths < 0 THEN -tenths ELSE tenths
    IN (IF tenths < 0 THEN "-" ELSE "") \o NatToStr(a \div 10) \o "." \o NatToStr(a % 10)

\* str(x) of a scalar
ToStr(x) ==
    CASE x.t = "str" -> x.v
      [] x.t = "int" -> IntToStr(x.v)
      [] x.t = "float" -> FloatToStr(x.v)
      [] x.t = "bool" -> (IF x.v THEN "True" ELSE "False")
      [] x.t = "none" -> "None"

\* hashlib.md5(s.encode()).hexdigest(): an ideal digest, equal for equal s only
Md5Hex(s) == "md5(" \o s \o ")"

-----------------------------------------------------------------------------
(* json.dumps *)

\* a str as a JSON string, ensure_ascii=False
JsonQuote(s) == "\"" \o Replace(Replace(s, "\\", "\\\\"), "\"", "\\\"") \o "\""

\* the items of a dict in the order of their keys
SortItems(items) ==
    With(items, LAMBDA held :
        [r \in 1..Len(held) |->
            held[CHOOSE i \in 1..Len(held) :
                     Cardinality({j \in 1..Len(held) : StrLess(held[j][1], held[i][1])})
                        = r - 1]])

RECURSIVE JsonDumps(_, _)
RECURSIVE DumpElements(_, _)
RECURSIVE DumpItems(_, _)

\* json.dumps(x, ensure_ascii=False, sort_keys=sort_keys)
JsonDumps(x, sort_keys) ==
    With(x, LAMBDA a :
        CASE a.t = "none" -> "null"
          [] a.t = "bool" -> (IF a.v THEN "true" ELSE "false")
          [] a.t = "int" -> IntToStr(a.v)
          [] a.t = "float" -> FloatToStr(a.v)
          [] a.t = "str" -> JsonQuote(a.v)
          [] a.t = "list" -> "[" \o DumpElements(a.v, sort_keys) \o "]"
          [] a.t = "dict" ->
                "{" \o DumpItems(IF sort_keys THEN SortItems(a.v) ELSE a.v, sort_keys) \o "}")

DumpElements(q, sort_keys) ==
    With(q, LAMBDA rest :
        IF rest = <<>> THEN ""
        ELSE JsonDumps(rest[1], sort_keys)
             \o (IF Len(rest) > 1 THEN ", " \o DumpElements(Tail(rest), sort_keys) ELSE ""))

DumpItems(items, sort_keys) ==
    With(items, LAMBDA rest :
        IF rest = <<>> THEN ""
        ELSE JsonQuote(rest[1][1]) \o ": " \o JsonDumps(rest[1][2], sort_keys)
             \o (IF Len(rest) > 1 THEN ", " \o DumpItems(Tail(rest), sort_keys) ELSE ""))

-----------------------------------------------------------------------------
(* json.loads and ast.literal_eval on the texts of the model: a number, a     *)
(* quoted string without escapes, a constant, a list of those, or (as a       *)
(* Python literal) a tuple of those written without parentheses               *)

DigitVal(c) == (CHOOSE i \in 1..10 : DigitSeq[i] = c) - 1

AllDigits(s) == s # "" /\ \A i \in 1..Len(s) : Ch(s, i) \in Digits

RECURSIVE ToNat(_)
ToNat(s) ==
    With(s, LAMBDA digits :
        IF digits = "" THEN 0
        ELSE ToNat(SubSeq(digits, 1, Len(digits) - 1)) * 10
             + DigitVal(Ch(digits, Len(digits))))

\* a decimal integer without a leading zero
IsIntLiteral(s) == AllDigits(s) /\ (Len(s) > 1 => Ch(s, 1) # "0")

\* the number that s writes, or Raised
ParseNumber(s) ==
    With(s, LAMBDA text :
        LET neg == StartsWith(text, "-")
            body == IF neg THEN Tail(text) ELSE text
            sign == IF neg THEN -1 ELSE 1
            dots == {i \in 1..Len(body) : Ch(body, i) = "."}
        IN IF dots = {}
           THEN IF IsIntLiteral(body) THEN PyInt(sign * ToNat(body)) ELSE Raised
           ELSE LET p == CHOOSE i \in dots : TRUE
                    whole == SubSeq(body, 1, p - 1)
                    frac == SubSeq(body, p + 1, Len(body))
                IN IF /\ Cardinality(dots) = 1
                      /\ IsIntLiteral(whole)
                      /\ AllDigits(frac)
                      /\ Len(frac) = 1
                   THEN PyFloat(sign * (ToNat(whole) * 10 + ToNat(frac)))
                   ELSE Raised)

\* s is a string literal in quotes of kind quote, without escapes
IsQuoted(s, quote) ==
    /\ Len(s) >= 2
    /\ Ch(s, 1) = quote
    /\ Ch(s, Len(s)) = quote
    /\ \A i \in 2..(Len(s) - 1) : Ch(s, i) \notin {quote, "\\"}

\* one scalar, as json (dialect "json") or as a Python literal ("ast") reads it
ParseScalar(s, dialect) ==
    With(s, LAMBDA text :
        IF IsQuoted(text, "\"") THEN PyStr(SubSeq(text, 2, Len(text) - 1))
        ELSE IF dialect = "ast" /\ IsQuoted(text, "'")
        THEN PyStr(SubSeq(text, 2, Len(text) - 1))
        ELSE IF text = (IF dialect = "json" THEN "true" ELSE "True") THEN PyBool(TRUE)
        ELSE IF text = (IF dialect = "json" THEN "false" ELSE "False") THEN PyBool(FALSE)
        ELSE IF text = (IF dialect = "json" THEN "null" ELSE "None") THEN PyNone
        ELSE ParseNumber(text))

\* s.split(c)
RECURSIVE Split(_, _)
Split(s, c) ==
    With(s, LAMBDA rest :
        IF \A i \in 1..Len(rest) : Ch(rest, i) # c THEN <<rest>>
        ELSE With(CHOOSE i \in 1..Len(rest) :
                      Ch(rest, i) = c /\ \A j \in 1..(i - 1) : Ch(rest, j) # c,
                  LAMBDA p : <<SubSeq(rest, 1, p - 1)>>
                             \o Split(SubSeq(rest, p + 1, Len(rest)), c)))

\* the list that s, "[" ... "]", writes, or Raised; a Python literal may end
\* its elements with a comma
ParseList(s, dialect) ==
    With(Strip(SubSeq(s, 2, Len(s) - 1), WhiteSpace), LAMBDA inner :
    With(Split(inner, ","), LAMBDA parts :
    With(IF /\ dialect = "ast"
            /\ Len(parts) > 1
            /\ Strip(parts[Len(parts)], WhiteSpace) = ""
         THEN SubSeq(parts, 1, Len(parts) - 1)
         ELSE parts, LAMBDA kept :
    With([i \in 1..Len(kept) |-> ParseScalar(Strip(kept[i], WhiteSpace), dialect)],
         LAMBDA elems :
        IF inner = "" THEN PyList(<<>>)
        ELSE IF \E i \in 1..Len(elems) : IsRaised(elems[i]) THEN Raised
        ELSE PyList(elems)))))

\* the tuple that s, elements separated by commas, writes, or Raised
ParseTuple(s) ==
    With(Split(s, ","), LAMBDA parts :
    With(IF Strip(parts[Len(parts)], WhiteSpace) = ""
         THEN SubSeq(parts, 1, Len(parts) - 1)
         ELSE parts, LAMBDA kept :
    With([i \in 1..Len(kept) |-> ParseScalar(Strip(kept[i], WhiteSpace), "ast")],
         LAMBDA elems :
        IF \E i \in 1..Len(elems) : IsRaised(elems[i]) THEN Raised
        ELSE PyTuple(elems))))

ParseText(s, dialect) ==
    With(Strip(s, WhiteSpace), LAMBDA text :
        IF StartsWith(text, "[") /\ EndsWith(text, "]") /\ Len(text) >= 2
        THEN ParseList(text, dialect)
        ELSE IF text = "{}" THEN PyDict(<<>>)
        ELSE IF dialect = "ast" /\ Contains(text, ",") THEN ParseTuple(text)
        ELSE ParseScalar(text, dialect))

\* json.loads(s)
JsonLoads(s) == ParseText(s, "json")

\* ast.literal_eval(s)
LiteralEval(s) == ParseText(s, "ast")

-----------------------------------------------------------------------------
(* transform.py: parsing utilities *)

try_parse_json_like(text) ==
    With(text, LAMBDA given :
        IF given.t = "none" THEN PyNone
        ELSE IF given.t \in {"dict", "list"} THEN given
        ELSE With(Strip(ToStr(given), WhiteSpace), LAMBDA s :
                IF s = "" THEN PyNone
                ELSE IF /\ \/ StartsWith(s, "{") /\ EndsWith(s, "}")
                           \/ StartsWith(s, "[") /\ EndsWith(s, "]")
                        /\ ~IsRaised(JsonLoads(s))
                THEN JsonLoads(s)
                ELSE With(LiteralEval(s), LAMBDA literal :
                        IF ~IsRaised(literal) THEN literal ELSE PyNone)))

ensure_list_of_same_length(l1, l2) ==
    With(<<l1, l2>>, LAMBDA lists :
        IF lists[1].t = "none" \/ lists[2].t = "none" THEN FALSE
        ELSE IsList(lists[1]) /\ IsList(lists[2]) /\ Len(lists[1].v) = Len(lists[2].v))

-----------------------------------------------------------------------------
(* transform.py: the Expanders.  A generator returns Yield(records), or     *)
(* Raised when an exception leaves it.                                       *)

Yield(records) == [t |-> "yield", v |-> records]

Min(a, b) == IF a < b THEN a ELSE b

RECURSIVE Concat(_)
Concat(seqs) ==
    With(seqs, LAMBDA rest :
        IF rest = <<>> THEN <<>> ELSE Head(rest) \o Concat(Tail(rest)))

\* isinstance(v, (str, int, float, bool))
IsScalar(x) == x.t \in {"str", "int", "float", "bool"}

\* lines 161-168, keeping the scalars only
FlattenedScalarsOnly(items) ==
    LET Kept(item) == IsScalar(item[2])
    IN SelectSeq(items, Kept)

\* lines 161-168: every top-level item, values that are no scalars as JSON text
Flattened(items) ==
    With(items, LAMBDA held :
        [i \in 1..Len(held) |->
            <<held[i][1],
              IF IsScalar(held[i][2]) THEN held[i][2]
              ELSE PyStr(JsonDumps(held[i][2], FALSE))>>])

\* lines 145-155: the record of one hour
HourRecord(obj, fuente_archivo, fecha_proceso_utc, id_base, t, temp) ==
    PyDict(<<
        <<"fuente_archivo", PyStr(fuente_archivo)>>,
        <<"fecha_proceso_utc", PyStr(fecha_proceso_utc)>>,
        <<"id_registro", PyStr(Md5Hex(id_base \o "|" \o ToStr(t) \o "|" \o ToStr(temp)))>>,
        <<"time", t>>,
        <<"temperature_2m", temp>>,
        <<"latitude", Get(obj, "latitude")>>,
        <<"longitude", Get(obj, "longitude")>>,
        <<"elevation", Get(obj, "elevation")>> >>)

\* lines 158-174: the fallback record
FallbackRecord(obj, fuente_archivo, fecha_proceso_utc, id_base) ==
    PyDict(Update(IF IsDict(obj) THEN Flattened(obj.v) ELSE <<>>,
                  << <<"fuente_archivo", PyStr(fuente_archivo)>>,
                     <<"fecha_proceso_utc", PyStr(fecha_proceso_utc)>>,
                     <<"id_registro", PyStr(Md5Hex(id_base \o "_fallback"))>> >>))

expand_clima(obj, fuente_archivo, fecha_proceso_utc, id_base) ==
    With(IF IsDict(obj) THEN GetOr(obj, "hourly", PyDict(<<>>)) ELSE PyDict(<<>>),
         LAMBDA hourly :
        IF ~IsDict(hourly) THEN Raised
        ELSE IF Falsy(Get(hourly, "time")) /\ ~IsDict(obj) THEN Raised
        ELSE
          With(Or(Get(hourly, "time"), Get(obj, "hourly.time")), LAMBDA time_field :
          With(Or(Or(Get(hourly, "temperature_2m"),
                     Get(hourly, "hourly.temperature_2m")),
                  Get(hourly, "hourly.temperature_2m")), LAMBDA temp_field :
          With(IF IsList(time_field) THEN time_field
               ELSE try_parse_json_like(time_field), LAMBDA time_list :
          With(IF IsList(temp_field) THEN temp_field
               ELSE try_parse_json_like(temp_field), LAMBDA temp_list :
            IF ensure_list_of_same_length(time_list, temp_list)
            THEN Yield([i \in 1..Min(Len(time_list.v), Len(temp_list.v)) |->
                           HourRecord(obj, fuente_archivo, fecha_proceso_utc, id_base,
                                      time_list.v[i], temp_list.v[i])])
            ELSE Yield(<<FallbackRecord(obj, fuente_archivo, fecha_proceso_utc,
                                        id_base)>>))))))

\* lines 187-189 without the parse: the text is kept
FixCoordinatesNot(coords) == coords

\* lines 187-189
FixCoordinates(coords) ==
    IF coords.t = "str"
    THEN With(try_parse_json_like(coords), LAMBDA parsed :
            IF ~IsNone(parsed) THEN parsed ELSE coords)
    ELSE coords

\* lines 196-198
Stamp(out, fuente_archivo, fecha_proceso_utc) ==
    With(SetItem(SetItem(out, "fuente_archivo", PyStr(fuente_archivo)),
                 "fecha_proceso_utc", PyStr(fecha_proceso_utc)), LAMBDA stamped :
        PyDict(SetItem(stamped, "id_registro",
                       PyStr(Md5Hex(JsonDumps(PyDict(stamped), TRUE))))))

expand_usgs_feature(feature, fuente_archivo, fecha_proceso_utc) ==
    IF IsDict(feature)
    THEN With(GetOr(feature, "properties", PyDict(<<>>)), LAMBDA props :
         With(GetOr(feature, "geometry", PyDict(<<>>)), LAMBDA geom :
            IF ~IsDict(props) \/ ~IsDict(geom) THEN Raised
            ELSE LET out1 == [i \in 1..Len(props.v) |->
                                 <<"properties." \o props.v[i][1], props.v[i][2]>>]
                     out2 == SetItem(out1, "geometry.coordinates",
                                     FixCoordinates(Get(geom, "coordinates")))
                     out3 == SetItem(out2, "type", Get(feature, "type"))
                     out4 == SetItem(out3, "id", Get(feature, "id"))
                 IN Stamp(out4, fuente_archivo, fecha_proceso_utc)))
    ELSE Stamp(<< <<"feature", PyStr(JsonDumps(feature, FALSE))>> >>,
               fuente_archivo, fecha_proceso_utc)

expand_sismos_list(obj, fuente_archivo, fecha_proceso_utc) ==
    With(IF IsDict(obj) /\ HasKey(obj, "features") /\ IsList(Get(obj, "features"))
         THEN Get(obj, "features").v
         ELSE IF IsList(obj) THEN obj.v
         ELSE <<>>, LAMBDA features :
    With([i \in 1..Len(features) |->
             expand_usgs_feature(features[i], fuente_archivo, fecha_proceso_utc)],
         LAMBDA records :
        IF \E i \in 1..Len(records) : IsRaised(records[i]) THEN Raised
        ELSE Yield(records)))

\* json.dumps(x, sort_keys=True) hashed
DumpDigest(x) == PyStr(Md5Hex(JsonDumps(x, TRUE)))

\* lines 254-266: the records of one item of an award
ItemRecord(release_id, award_id, it, fuente_archivo, fecha_proceso_utc) ==
    PyDict(<<
        <<"release_id", release_id>>,
        <<"award_id", award_id>>,
        <<"item_id", Or(Get(it, "id"), DumpDigest(it))>>,
        <<"description", Get(it, "description")>>,
        <<"quantity", Get(it, "quantity")>>,
        <<"unit_value", IF IsDict(Get(it, "unit"))
                        THEN Get(Or(GetOr(it, "unit", PyDict(<<>>)), PyDict(<<>>)), "value")
                        ELSE PyNone>>,
        <<"fuente_archivo", PyStr(fuente_archivo)>>,
        <<"fecha_proceso_utc", PyStr(fecha_proceso_utc)>>,
        <<"id_registro", DumpDigest(PyDict(<< <<"release", release_id>>,
                                              <<"item", it>> >>))>> >>)

\* lines 250-267, stopping after the first item of the award
AwardItemsFirstOnly(release_id, aw, fuente_archivo, fecha_proceso_utc) ==
    IF ~IsDict(aw) THEN <<Raised>>
    ELSE With(Or(Get(aw, "id"), DumpDigest(aw)), LAMBDA award_id :
         With(Or(Get(aw, "items"), PyList(<<>>)), LAMBDA items :
            IF ~IsList(items) THEN <<Raised>>
            ELSE [i \in 1..Min(1, Len(items.v)) |->
                     IF IsDict(items.v[i])
                     THEN [t |-> "item",
                           v |-> ItemRecord(release_id, award_id, items.v[i],
                                            fuente_archivo, fecha_proceso_utc)]
                     ELSE Raised]))

\* lines 250-267: the item records of one award; <<Raised>> when it raises
AwardItems(release_id, aw, fuente_archivo, fecha_proceso_utc) ==
    IF ~IsDict(aw) THEN <<Raised>>
    ELSE With(Or(Get(aw, "id"), DumpDigest(aw)), LAMBDA award_id :
         With(Or(Get(aw, "items"), PyList(<<>>)), LAMBDA items :
            IF ~IsList(items) THEN <<Raised>>
            ELSE [i \in 1..Len(items.v) |->
                     IF IsDict(items.v[i])
                     THEN [t |-> "item",
                           v |-> ItemRecord(release_id, award_id, items.v[i],
                                            fuente_archivo, fecha_proceso_utc)]
                     ELSE Raised]))

\* lines 233-267: what one release yields; <<Raised>> when it raises
ReleaseRecords(rel, fuente_archivo, fecha_proceso_utc) ==
    IF ~IsDict(rel) THEN <<Raised>>
    ELSE With(Or(Or(Get(rel, "id"), Get(rel, "ocid")), DumpDigest(rel)),
              LAMBDA release_id :
         With(Or(Get(rel, "awards"), PyList(<<>>)), LAMBDA awards :
            LET base == PyDict(<<
                    <<"release_id", release_id>>,
                    <<"fuente_archivo", PyStr(fuente_archivo)>>,
                    <<"fecha_proceso_utc", PyStr(fecha_proceso_utc)>>,
                    <<"id_registro", PyStr(Md5Hex(ToStr(release_id)))>>,
                    <<"buyer", IF Falsy(Get(rel, "buyer")) THEN PyNone
                               ELSE PyStr(JsonDumps(GetOr(rel, "buyer", PyDict(<<>>)),
                                                    FALSE))>>,
                    <<"date", Get(rel, "date")>> >>)
            IN <<[t |-> "release", v |-> base]>>
               \o (IF ~IsList(awards) THEN <<Raised>>
                   ELSE Concat([i \in 1..Len(awards.v) |->
                                   AwardItems(release_id, awards.v[i],
                                              fuente_archivo, fecha_proceso_utc)]))))

expand_sercop_releases(obj, fuente_archivo, fecha_proceso_utc) ==
    With(IF IsDict(obj) THEN Get(obj, "releases") ELSE PyNone, LAMBDA releases_raw :
    With(IF releases_raw.t = "str" THEN try_parse_json_like(releases_raw)
         ELSE IF IsList(releases_raw) THEN releases_raw
         ELSE IF IsList(obj) THEN obj
         ELSE PyList(<<obj>>), LAMBDA releases :
        IF Falsy(releases) THEN Yield(<<>>)
        ELSE IF ~IsList(releases) THEN Raised
        ELSE With(Concat([i \in 1..Len(releases.v) |->
                             ReleaseRecords(releases.v[i],
                                            fuente_archivo, fecha_proceso_utc)]),
                  LAMBDA yielded :
                IF \E i \in 1..Len(yielded) : IsRaised(yielded[i]) THEN Raised
                ELSE Yield(yielded))))

-----------------------------------------------------------------------------
(* transform.py: main.  A raw file is held as what it denotes: a JSON         *)
(* document ("json"), a table of typed cells as pandas reads it ("csv"), a    *)
(* directory entry, which no reader can open ("dir"), or its text together    *)
(* with what pd.read_csv makes of it at each attempt ("text").                *)

RAW_DIR == "data/raw"

JsonFile(doc) == [kind |-> "json", doc |-> doc]

CsvFile(columns, rows) == [kind |-> "csv", columns |-> columns, rows |-> rows]

DirEntry == [kind |-> "dir"]

\* reads[k] is what pd.read_csv does at attempt k: Raised, or Yield(the table)
TextFile(text, reads) == [kind |-> "text", text |-> text, reads |-> reads]

\* the transform stage does not run
TransformIdle ==
    /\ raw = <<>>
    /\ raw_files = <<>>
    /\ handled = 0
    /\ processed = <<>>
    /\ tpc = "idle"
    /\ clock = 0
    /\ previous = <<>>

\* lines 20-22, on the values of one row
RECURSIVE JoinValues(_)
JoinValues(values) ==
    With(values, LAMBDA rest :
        IF rest = <<>> THEN ""
        ELSE IF Len(rest) = 1 THEN ToStr(rest[1])
        ELSE ToStr(rest[1]) \o "|" \o JoinValues(Tail(rest)))

generate_unique_id(values) == Md5Hex(JoinValues(values))

\* lines 70-92: Yield(the table), or Raised when every attempt and the last
\* resort fail
\* the lines of a text: "for line in f", text.splitlines()
Lines(text) ==
    IF text = "" THEN <<>>
    ELSE With(Split(text, "\n"), LAMBDA parts :
            IF parts[Len(parts)] = "" THEN SubSeq(parts, 1, Len(parts) - 1) ELSE parts)

\* max(len(row) for row in rows), 0 without rows
Width(rows) ==
    IF rows = <<>> THEN 0
    ELSE CHOOSE w \in {Len(rows[i]) : i \in 1..Len(rows)} :
             \A i \in 1..Len(rows) : Len(rows[i]) <= w

\* lines 83-91: every line split on commas, the columns named by position
LastResort(text) ==
    With([i \in 1..Len(Lines(text)) |-> Split(Strip(Lines(text)[i], WhiteSpace), ",")],
         LAMBDA rows :
    With(Width(rows), LAMBDA width :
        CsvFile([j \in 1..width |-> "col_" \o NatToStr(j - 1)],
                [i \in 1..Len(rows) |->
                    [j \in 1..width |-> IF j <= Len(rows[i]) THEN PyStr(rows[i][j])
                                        ELSE PyNone]])))

\* lines 77-81: what the first attempt that does not raise returns, or Raised
RECURSIVE FirstRead(_, _)
FirstRead(reads, k) ==
    IF k > Len(reads) THEN Raised
    ELSE IF ~IsRaised(reads[k]) THEN reads[k]
    ELSE FirstRead(reads, k + 1)

\* lines 70-92 without the last resort
read_csv_robusto_attempts_only(file) ==
    IF file.kind = "dir" THEN Raised
    ELSE IF file.kind = "text" THEN FirstRead(file.reads, 1)
    ELSE Yield(file)

\* lines 70-92: Yield(the table), or Raised when every attempt and the last
\* resort fail
read_csv_robusto(file) ==
    IF file.kind = "dir" THEN Raised
    ELSE IF file.kind = "text"
    THEN With(FirstRead(file.reads, 1), LAMBDA df :
            IF ~IsRaised(df) THEN df ELSE Yield(LastResort(file.text)))
    ELSE Yield(file)

\* lines 95-126: the document, or None
\* lines 105-119: what one line of the text adds to arr
ParsedLine(line) ==
    With(Strip(line, WhiteSpace), LAMBDA stripped :
        IF stripped = "" THEN <<>>
        ELSE IF ~IsRaised(JsonLoads(stripped)) THEN <<JsonLoads(stripped)>>
        ELSE IF ~IsRaised(LiteralEval(stripped)) THEN <<LiteralEval(stripped)>>
        ELSE <<>>)

\* lines 95-126: the document, or None
load_json_file(file) ==
    IF file.kind = "json" THEN file.doc
    ELSE IF file.kind = "text"
    THEN With(Strip(file.text, WhiteSpace), LAMBDA text :
            IF text = "" THEN PyNone
            ELSE IF ~IsRaised(JsonLoads(text)) THEN JsonLoads(text)
            ELSE With(Concat([i \in 1..Len(Lines(text)) |-> ParsedLine(Lines(text)[i])]),
                      LAMBDA arr : IF Len(arr) > 0 THEN PyList(arr) ELSE PyNone))
    ELSE PyNone

Ext(path) == Lower(Split(path, ".")[Len(Split(path, "."))])

\* lines 274-294: Yield(<<ftype, content>>), or Raised
load_file_dynamic(path, file) ==
    IF Ext(path) = "csv"
    THEN (IF IsRaised(read_csv_robusto(file)) THEN Raised
          ELSE Yield(<<"csv", read_csv_robusto(file).v>>))
    ELSE IF ~IsNone(load_json_file(file)) THEN Yield(<<"json", load_json_file(file)>>)
    ELSE IF IsRaised(read_csv_robusto(file)) THEN Yield(<<"none", PyNone>>)
    ELSE Yield(<<"csv", read_csv_robusto(file).v>>)

\* filename.rsplit(".", 1)[0]
BaseName(name) ==
    IF ~Contains(name, ".") THEN name
    ELSE With(CHOOSE i \in 1..Len(name) :
                  Ch(name, i) = "." /\ \A j \in (i + 1)..Len(name) : Ch(name, j) # ".",
              LAMBDA last : SubSeq(name, 1, last - 1))

\* datetime.isoformat() of the k-th instant
Isoformat(k) == "2024-01-0" \o NatToStr(k) \o "T00:00:00"

\* lines 344-353: the records of a weather file, or Raised
ClimaRecords(doc, name, fecha_proceso_utc) ==
    IF IsList(doc)
    THEN With([i \in 1..Len(doc.v) |->
                  expand_clima(doc.v[i], name, fecha_proceso_utc, BaseName(name))],
              LAMBDA each :
            IF \E i \in 1..Len(each) : IsRaised(each[i]) THEN Raised
            ELSE Yield(Concat([i \in 1..Len(each) |-> each[i].v])))
    ELSE IF IsDict(doc) THEN expand_clima(doc, name, fecha_proceso_utc, BaseName(name))
    ELSE Yield(<<>>)

\* lines 401-407: the column names of the clean table
NormalizeColumn(c) ==
    Replace(Replace(Replace(Lower(Strip(c, WhiteSpace)), " ", "_"), "-", "_"), "/", "_")

\* lines 401-410: one row of the clean table
CsvRecord(columns, row, name, fecha_proceso_utc) ==
    With(SetItem(SetItem([i \in 1..Len(columns) |->
                             <<NormalizeColumn(columns[i]), row[i]>>],
                         "fuente_archivo", PyStr(name)),
                 "fecha_proceso_utc", PyStr(fecha_proceso_utc)), LAMBDA stamped :
        PyDict(SetItem(stamped, "id_registro",
                       PyStr(generate_unique_id([i \in 1..Len(stamped) |->
                                                    stamped[i][2]])))))

\* lines 425-435 and 437-446: the record of one object of a generic document
GenericRecord(obj, name, fecha_proceso_utc) ==
    Stamp(IF IsDict(obj) THEN Flattened(obj.v) ELSE <<>>, name, fecha_proceso_utc)

\* lines 422-446
GenericRecords(doc, name, fecha_proceso_utc) ==
    IF IsList(doc)
    THEN [i \in 1..Len(doc.v) |-> GenericRecord(doc.v[i], name, fecha_proceso_utc)]
    ELSE IF IsDict(doc) THEN <<GenericRecord(doc, name, fecha_proceso_utc)>>
    ELSE <<>>

\* the branch of main's if/elif chain that a readable file takes
Route(name, ftype) ==
    IF StartsWith(name, "api_clima") THEN "clima"
    ELSE IF StartsWith(name, "api_sismos_usgs") \/ StartsWith(name, "api_sismos_ec")
    THEN "sismos"
    ELSE IF StartsWith(name, "releases") THEN "releases"
    ELSE ftype

\* the payloads of one type among what the procurement Expander yielded
RECURSIVE Payloads(_, _)
Payloads(yielded, typ) ==
    With(yielded, LAMBDA rest :
        IF rest = <<>> THEN <<>>
        ELSE (IF rest[1].t = typ THEN <<rest[1].v>> ELSE <<>>)
             \o Payloads(Tail(rest), typ))

\* lines 342-455 for one readable file: Raised, or the files it writes as a
\* sequence of <<name, records>>
Outputs(name, ftype, doc, fecha_proceso_utc) ==
    With(BaseName(name), LAMBDA base_name :
    With(Route(name, ftype), LAMBDA route :
        CASE route = "clima" ->
               With(ClimaRecords(doc, name, fecha_proceso_utc), LAMBDA recs :
                  IF IsRaised(recs) THEN Raised
                  ELSE Yield(<< <<base_name \o "_expanded.ndjson", recs.v>> >>))
          [] route = "sismos" ->
               With(expand_sismos_list(doc, name, fecha_proceso_utc), LAMBDA recs :
                  IF IsRaised(recs) THEN Raised
                  ELSE Yield(<< <<base_name \o "_expanded.ndjson", recs.v>> >>))
          [] route = "releases" ->
               With(expand_sercop_releases(doc, name, fecha_proceso_utc), LAMBDA recs :
                  IF IsRaised(recs) THEN Raised
                  ELSE With(Payloads(recs.v, "release"), LAMBDA iterable_releases :
                       With(Payloads(recs.v, "item"), LAMBDA iterable_items :
                          Yield((IF iterable_releases # <<>>
                                 THEN << <<base_name \o "_releases_expanded.ndjson",
                                           iterable_releases>> >>
                                 ELSE <<>>)
                                \o (IF iterable_items # <<>>
                                    THEN << <<base_name \o "_items_expanded.ndjson",
                                              iterable_items>> >>
                                    ELSE <<>>)))))
          [] route = "csv" ->
               Yield(<< <<base_name \o "_cleancsv.csv",
                          [i \in 1..Len(doc.rows) |->
                              CsvRecord(doc.columns, doc.rows[i], name,
                                        fecha_proceso_utc)]>> >>)
          [] route = "json" ->
               With(GenericRecords(doc, name, fecha_proceso_utc), LAMBDA iterable :
                  Yield(IF iterable # <<>>
                        THEN << <<base_name \o "_clean_expanded.ndjson", iterable>> >>
                        ELSE <<>>))))

\* open(out_path, "w") and the lines written, for every output of one file
RECURSIVE WriteAll(_, _)
WriteAll(dir, outs) ==
    With(<<dir, outs>>, LAMBDA held :
        IF held[2] = <<>> THEN held[1]
        ELSE WriteAll([f \in DOMAIN held[1] \cup {held[2][1][1]} |->
                          IF f = held[2][1][1] THEN held[2][1][2] ELSE held[1][f]],
                      Tail(held[2])))

-----------------------------------------------------------------------------
(* load_to_bigquery.py: the skip rules *)

Skip(reason) == [skip |-> TRUE, reason |-> reason]

NoSkip == [skip |-> FALSE, reason |-> ""]

\* should_skip_file(filename); files is what os.path.exists sees in PROCESSED_DIR
should_skip_file(filename, files) ==
    IF EndsWith(filename, "_clean.json")
    THEN Skip("JSON corrupto (_clean.json)")
    ELSE IF EndsWith(filename, "_cleanjson.json")
    THEN Skip("JSON con campos invalidos (_cleanjson.json)")
    ELSE IF EndsWith(filename, "_cleanbin.json")
    THEN Skip("Duplicado (_cleanbin.json)")
    ELSE IF /\ Contains(Lower(filename), "mies_") \/ Contains(Lower(filename), "mremh_")
            /\ Contains(filename, "_cleancsv.csv")
    THEN Skip("CSV MIES/MREMH con delimitadores rotos")
    ELSE IF /\ Contains(filename, "_cleancsv.csv")
            /\ LET base == Replace(filename, "_cleancsv.csv", "")
                   clean_version == base \o "_clean.csv"
               IN clean_version \in files
    THEN Skip("Duplicado de _clean.csv")
    ELSE NoSkip

-----------------------------------------------------------------------------
(* load_to_bigquery.py: validate_csv *)

Verdict(valid, reason) == [valid |-> valid, reason |-> reason]

\* first_line.count(";") > 10 and comma_count == 0, with the bound off by one
validate_csv_threshold_off(lines) ==
    LET first_line == IF lines = <<>> THEN "" ELSE Strip(lines[1], WhiteSpace)
        semicolon_count == Count(first_line, ";")
        comma_count == Count(first_line, ",")
        separator == IF semicolon_count > comma_count THEN ";" ELSE ","
    IN IF semicolon_count > 11 /\ comma_count = 0
       THEN Verdict(FALSE, "CSV malformado (solo semicolons sin comas)")
       ELSE IF lines = <<>>
       THEN Verdict(FALSE, "Error al parsear")
       ELSE IF Count(lines[1], separator) + 1 <= 1
       THEN Verdict(FALSE, "Solo 1 columna detectada (delimitador incorrecto)")
       ELSE Verdict(TRUE, "")

\* validate_csv(path); lines are the lines of the file at path.  pd.read_csv
\* with nrows=1 takes its columns from the header line, one more than the
\* separators in it (the lines of the model hold no quotes and are not blank),
\* and raises on a file with no line, which the except clause turns into a
\* verdict.
validate_csv(lines) ==
    LET first_line == IF lines = <<>> THEN "" ELSE Strip(lines[1], WhiteSpace)
        semicolon_count == Count(first_line, ";")
        comma_count == Count(first_line, ",")
        separator == IF semicolon_count > comma_count THEN ";" ELSE ","
    IN IF semicolon_count > 10 /\ comma_count = 0
       THEN Verdict(FALSE, "CSV malformado (solo semicolons sin comas)")
       ELSE IF lines = <<>>
       THEN Verdict(FALSE, "Error al parsear")
       ELSE IF Count(lines[1], separator) + 1 <= 1
       THEN Verdict(FALSE, "Solo 1 columna detectada (delimitador incorrecto)")
       ELSE Verdict(TRUE, "")

-----------------------------------------------------------------------------
(* load_to_bigquery.py: clean_bq_column *)

\* U+FEFF, which the model writes as the form feed it has no other use for
BOM == "\f"

\* line 118 left out
KeepIdentifierCharsNot(s) == s

\* re.sub(r"[^a-z0-9_]", "", name)
KeepIdentifierChars(s) ==
    With(s, LAMBDA rest :
        JoinAll([i \in 1..Len(rest) |->
                    IF Ch(rest, i) \in LowerLetters \cup Digits \cup {"_"}
                    THEN Ch(rest, i) ELSE ""]))

\* re.sub(r"_+", "_", name)
CollapseUnderscores(s) ==
    With(s, LAMBDA rest :
        JoinAll([i \in 1..Len(rest) |->
                    IF /\ Ch(rest, i) = "_"
                       /\ i < Len(rest)
                       /\ Ch(rest, i + 1) = "_"
                    THEN "" ELSE Ch(rest, i)]))

\* the replacements dict, in its order: <<old, new>>
replacements == <<
    <<".", "_">>, <<";", "_">>, <<" ", "_">>, <<"-", "_">>, <<"/", "_">>,
    <<"(", "">>, <<")", "">>, <<"\"", "">>, <<"'", "">>, <<",", "_">> >>

RECURSIVE ApplyReplacements(_, _)
ApplyReplacements(name, k) ==
    With(name, LAMBDA held :
        IF k > Len(replacements) THEN held
        ELSE ApplyReplacements(Replace(held, replacements[k][1], replacements[k][2]),
                               k + 1))

\* lines 104-126 with the underscores stripped before line 118 instead of at
\* line 120
clean_bq_column_strip_early(name) ==
    With(Replace(name, BOM, ""), LAMBDA n1 :
    With(Strip(n1, WhiteSpace), LAMBDA n2 :
    With(Lower(n2), LAMBDA n3 :
    With(ApplyReplacements(n3, 1), LAMBDA n4 :
    With(Strip(n4, {"_"}), LAMBDA n5 :
    With(KeepIdentifierChars(n5), LAMBDA n6 :
    With(CollapseUnderscores(n6), LAMBDA n7 :
    With(IF n7 # "" /\ Ch(n7, 1) \in Digits THEN "col_" \o n7 ELSE n7, LAMBDA n8 :
        IF n8 = "" THEN "unnamed" ELSE n8))))))))

clean_bq_column(name) ==
    With(Replace(name, BOM, ""), LAMBDA n1 :
    With(Strip(n1, WhiteSpace), LAMBDA n2 :
    With(Lower(n2), LAMBDA n3 :
    With(ApplyReplacements(n3, 1), LAMBDA n4 :
    With(KeepIdentifierChars(n4), LAMBDA n5 :
    With(CollapseUnderscores(n5), LAMBDA n6 :
    With(Strip(n6, {"_"}), LAMBDA n7 :
    With(IF n7 # "" /\ Ch(n7, 1) \in Digits THEN "col_" \o n7 ELSE n7, LAMBDA n8 :
        IF n8 = "" THEN "unnamed" ELSE n8))))))))

-----------------------------------------------------------------------------
(* load_to_bigquery.py: flatten_dict and what process_ndjson and process_csv  *)
(* write                                                                      *)

\* lines 139-149: the (key, value) pairs gathered from the items of a dict
RECURSIVE FlattenItems(_, _)
FlattenItems(items, parent_key) ==
    With(items, LAMBDA rest :
        IF rest = <<>> THEN <<>>
        ELSE LET k == rest[1][1]
                 v == rest[1][2]
                 new_key == IF parent_key # "" THEN parent_key \o "_" \o k ELSE k
             IN (IF IsDict(v) THEN Update(<<>>, FlattenItems(v.v, new_key))
                 ELSE IF IsList(v) THEN << <<new_key, PyStr(JsonDumps(v, FALSE))>> >>
                 ELSE << <<new_key, v>> >>)
                \o FlattenItems(Tail(rest), parent_key))

flatten_dict(d, parent_key) == PyDict(Update(<<>>, FlattenItems(d.v, parent_key)))

\* lines 209-215: one parsed line, flattened and with clean column names
CleanedRecord(obj) ==
    With(flatten_dict(obj, "").v, LAMBDA flattened :
        PyDict(Update(<<>>, [i \in 1..Len(flattened) |->
                                <<clean_bq_column(flattened[i][1]), flattened[i][2]>>])))

\* lines 174-178: the table process_csv writes, df being the table read
process_csv(df) ==
    CsvFile([i \in 1..Len(df.columns) |-> clean_bq_column(df.columns[i])], df.rows)

-----------------------------------------------------------------------------
(* load_to_bigquery.py: the table name of main *)

\* the length of the longest prefix of s made of digits
RECURSIVE DigitRun(_)
DigitRun(s) == IF s # "" /\ Ch(s, 1) \in Digits THEN 1 + DigitRun(Tail(s)) ELSE 0

\* digits of a timestamp: \d{8,}
MinTimestampDigits == 8

\* re.sub(r"_\d{8,}", "", base) that removes eight digits and no more
RECURSIVE StripTimestampsEightOnly(_)
StripTimestampsEightOnly(s) ==
    IF s = "" THEN ""
    ELSE IF Ch(s, 1) = "_" /\ DigitRun(Tail(s)) >= MinTimestampDigits
    THEN StripTimestampsEightOnly(SubSeq(s, 2 + MinTimestampDigits, Len(s)))
    ELSE Ch(s, 1) \o StripTimestampsEightOnly(Tail(s))

\* re.sub(r"_\d{8,}", "", base)
RECURSIVE StripTimestamps(_)
StripTimestamps(s) ==
    IF s = "" THEN ""
    ELSE IF Ch(s, 1) = "_" /\ DigitRun(Tail(s)) >= MinTimestampDigits
    THEN StripTimestamps(SubSeq(s, 2 + DigitRun(Tail(s)), Len(s)))
    ELSE Ch(s, 1) \o StripTimestamps(Tail(s))

StageWords == {"clean", "expanded", "releases", "cleancsv", "cleanbin"}

\* re.sub(r"_(clean|expanded|releases|cleancsv|cleanbin).*", "", base): what
\* precedes the first underscore that a stage word follows
RECURSIVE StripStage(_)
StripStage(s) ==
    IF s = "" THEN ""
    ELSE IF Ch(s, 1) = "_" /\ \E w \in StageWords : StartsWith(Tail(s), w)
    THEN ""
    ELSE Ch(s, 1) \o StripStage(Tail(s))

WordChars == LowerLetters \cup UpperLetters \cup Digits \cup {"_"}

RECURSIVE AllWordChars(_)
AllWordChars(s) == s = "" \/ (Ch(s, 1) \in WordChars /\ AllWordChars(Tail(s)))

\* re.sub(r"\.\w+$", "", base): the first dot that only word characters follow
RECURSIVE StripExtension(_)
StripExtension(s) ==
    IF s = "" THEN ""
    ELSE IF Ch(s, 1) = "." /\ Len(s) > 1 /\ AllWordChars(Tail(s))
    THEN ""
    ELSE Ch(s, 1) \o StripExtension(Tail(s))

\* main, lines 338-342
table_name(filename) ==
    clean_bq_column(StripExtension(StripStage(StripTimestamps(filename))))

-----------------------------------------------------------------------------
(* load_to_bigquery.py: main *)

PROCESSED_DIR == "data/processed"

\* file names that data/processed may hold when main starts
FileNames == {
    "d_cleancsv.csv", "d_clean.csv",
    "mies_b_cleancsv.csv",
    "d_clean.json",
    "api_20240101120000_expanded.ndjson", "api_20250101120000_expanded.ndjson",
    "d_clean_bqload.csv", ".keep", "notes.txt" }

\* what a .csv file may hold, as its lines
CsvContents == {
    <<"a,b,c", "1,2,3">>,
    <<"a;b;c;d;e;f;g;h;i;j;k;", "1;2;3;4;5;6;7;8;9;10;11;">>,
    <<"abc", "1">> }

MaxFiles == 3

\* the steps of the try block at which an exception may be raised: before the
\* _bqload file is created, after it is created, and in the load job
FailStages == {"read", "write", "load"}

IsCsv(f) == EndsWith(f, ".csv")

IsNdjson(f) == EndsWith(f, ".ndjson")

\* process_csv and process_ndjson: cleaned_path
cleaned_path(f) ==
    IF IsCsv(f) THEN Replace(f, ".csv", "_bqload.csv")
    ELSE Replace(f, ".ndjson", "_bqload.ndjson")

\* the listing without the two _bqload tests of line 313
ListingHiddenOnly(files) ==
    Sorted({f \in files : ~StartsWith(f, ".")})

\* main, lines 311-314
Listing(files) ==
    Sorted({f \in files : /\ ~StartsWith(f, ".")
                          /\ ~EndsWith(f, "_bqload.csv")
                          /\ ~EndsWith(f, "_bqload.ndjson")})

InitLoad ==
    /\ disk \in {S \in SUBSET FileNames : 1 <= Cardinality(S) /\ Cardinality(S) <= MaxFiles}
    /\ content \in [{f \in Range(Listing(disk)) : IsCsv(f)} -> CsvContents]
    /\ all_files = <<>>
    /\ idx = 0
    /\ loaded = 0
    /\ skipped = 0
    /\ failed = 0
    /\ outcome = <<>>
    /\ jobs = <<>>
    /\ written = {}
    /\ pc = "start"
    /\ prevFailed = {}
    /\ TransformIdle
    /\ input = <<>>
    /\ output = <<>>

\* main up to the loop: the listing and the counters
Enumerate ==
    /\ all_files' = Listing(disk)
    /\ idx' = 0
    /\ loaded' = 0
    /\ skipped' = 0
    /\ failed' = 0
    /\ outcome' = <<>>
    /\ jobs' = <<>>
    /\ written' = {}
    /\ pc' = "loop"
    /\ UNCHANGED <<disk, content>>

LoadStart ==
    /\ pc = "start"
    /\ Enumerate
    /\ UNCHANGED prevFailed
    /\ UNCHANGED notLoad

InLoop == pc = "loop" /\ idx < Len(all_files)

filename == all_files[idx + 1]

Note(kind, reason) == [file |-> filename, kind |-> kind, reason |-> reason]

\* the file passed the skip rules and, for a .csv, validate_csv
Accepted(f) ==
    /\ ~should_skip_file(f, disk).skip
    /\ \/ IsCsv(f) /\ validate_csv(content[f]).valid
       \/ ~IsCsv(f) /\ IsNdjson(f)

\* lines 331-335
GateSkip ==
    /\ InLoop
    /\ should_skip_file(filename, disk).skip
    /\ skipped' = skipped + 1
    /\ outcome' = Append(outcome, Note("skipped", should_skip_file(filename, disk).reason))
    /\ idx' = idx + 1
    /\ UNCHANGED <<disk, content, all_files, loaded, failed, jobs, written, pc, prevFailed>>
    /\ UNCHANGED notLoad

\* lines 349-354
CsvInvalid ==
    /\ InLoop
    /\ ~should_skip_file(filename, disk).skip
    /\ IsCsv(filename)
    /\ ~validate_csv(content[filename]).valid
    /\ skipped' = skipped + 1
    /\ outcome' = Append(outcome, Note("invalid", validate_csv(content[filename]).reason))
    /\ idx' = idx + 1
    /\ UNCHANGED <<disk, content, all_files, loaded, failed, jobs, written, pc, prevFailed>>
    /\ UNCHANGED notLoad

\* lines 356-358 and 362-364: the clean-up writes the _bqload file, the load
\* job replaces the table (WRITE_TRUNCATE) and main counts the file
FileLoaded ==
    /\ InLoop
    /\ Accepted(filename)
    /\ disk' = disk \cup {cleaned_path(filename)}
    /\ written' = written \cup {cleaned_path(filename)}
    /\ jobs' = Append(jobs, [file |-> filename, table |-> table_name(filename)])
    /\ loaded' = loaded + 1
    /\ outcome' = Append(outcome, Note("loaded", ""))
    /\ idx' = idx + 1
    /\ UNCHANGED <<content, all_files, skipped, failed, pc, prevFailed>>
    /\ UNCHANGED notLoad

\* lines 366-368
Unsupported ==
    /\ InLoop
    /\ ~should_skip_file(filename, disk).skip
    /\ ~IsCsv(filename)
    /\ ~IsNdjson(filename)
    /\ skipped' = skipped + 1
    /\ outcome' = Append(outcome, Note("skipped", "Formato no soportado"))
    /\ idx' = idx + 1
    /\ UNCHANGED <<disk, content, all_files, loaded, failed, jobs, written, pc, prevFailed>>
    /\ UNCHANGED notLoad

\* lines 370-373, with the handler missing: the exception ends main
FileFailedUncaught ==
    /\ InLoop
    /\ Accepted(filename)
    /\ \E stage \in FailStages :
          /\ disk' = IF stage = "read" THEN disk ELSE disk \cup {cleaned_path(filename)}
          /\ written' = IF stage = "read" THEN written
                        ELSE written \cup {cleaned_path(filename)}
          /\ outcome' = Append(outcome, Note("failed", "ERROR"))
    /\ pc' = "crashed"
    /\ UNCHANGED <<content, all_files, idx, loaded, skipped, failed, jobs, prevFailed>>
    /\ UNCHANGED notLoad

\* lines 370-373: process_csv, process_ndjson or the load job raised
FileFailed ==
    /\ InLoop
    /\ Accepted(filename)
    /\ \E stage \in FailStages :
          /\ disk' = IF stage = "read" THEN disk ELSE disk \cup {cleaned_path(filename)}
          /\ written' = IF stage = "read" THEN written
                        ELSE written \cup {cleaned_path(filename)}
          /\ outcome' = Append(outcome, Note("failed", "ERROR"))
    /\ failed' = failed + 1
    /\ idx' = idx + 1
    /\ UNCHANGED <<content, all_files, loaded, skipped, jobs, pc, prevFailed>>
    /\ UNCHANGED notLoad

\* lines 375-387: the summary
LoadFinish ==
    /\ pc = "loop"
    /\ idx = Len(all_files)
    /\ pc' = "done"
    /\ UNCHANGED <<disk, content, all_files, idx, loaded, skipped, failed, outcome,
                   jobs, written, prevFailed>>
    /\ UNCHANGED notLoad

FilesWith(kind) == {outcome[i].file : i \in {j \in 1..Len(outcome) : outcome[j].kind = kind}}

\* main is run again on the directory as the last run left it
LoadRerun ==
    /\ pc = "done"
    /\ prevFailed' = FilesWith("failed")
    /\ Enumerate
    /\ UNCHANGED notLoad

NextLoad ==
    \/ LoadStart
    \/ GateSkip
    \/ CsvInvalid
    \/ FileLoaded
    \/ Unsupported
    \/ FileFailed
    \/ LoadFinish
    \/ LoadRerun

SpecLoad == InitLoad /\ [][NextLoad]_vars

-----------------------------------------------------------------------------
(* Properties of the load run *)

CountOf(kinds) == Cardinality({i \in 1..Len(outcome) : outcome[i].kind \in kinds})

\* C1: in one load run no two completed load jobs have the same destination
\* table, that is, at most one artifact is loaded per table.
C1_OneArtifactPerTable ==
    \A i, j \in 1..Len(jobs) : i # j => jobs[i].table # jobs[j].table

\* the first line has more than 10 semicolons and no comma
Malformed(lines) ==
    /\ lines # <<>>
    /\ Count(lines[1], ";") > 10
    /\ Count(lines[1], ",") = 0

\* C5: a .csv file that reached validation with a first line of more than 10
\* semicolons and no comma is rejected by validate_csv, is counted as skipped,
\* and neither a clean-up nor a load job is run for it.
C5_MalformedCsvRejected ==
    /\ \A i \in 1..Len(outcome) :
          LET f == outcome[i].file
          IN /\ IsCsv(f)
             /\ ~should_skip_file(f, disk).skip
             /\ Malformed(content[f])
             => /\ outcome[i].kind = "invalid"
                /\ outcome[i].reason = "CSV malformado (solo semicolons sin comas)"
                /\ cleaned_path(f) \notin written
                /\ \A k \in 1..Len(jobs) : jobs[k].file # f
    /\ skipped = CountOf({"skipped", "invalid"})

C5_Witness ==
    \E i \in 1..Len(outcome) :
        /\ outcome[i].kind = "invalid"
        /\ Malformed(content[outcome[i].file])
        /\ skipped >= 1

\* C6: a file whose clean-up or load raised is counted as failed and not as
\* loaded, main goes on with every later file of the listing, which is loaded
\* or fails exactly when the gate accepts it, and the files that failed are
\* in the listing of the next run.
C6_FailureIsPerFile ==
    /\ failed = CountOf({"failed"})
    /\ loaded = CountOf({"loaded"})
    /\ loaded = Len(jobs)
    /\ \A i \in 1..Len(outcome) :
          /\ outcome[i].file = all_files[i]
          /\ outcome[i].kind \in {"loaded", "failed"} <=> Accepted(all_files[i])
          /\ outcome[i].kind = "failed" =>
                /\ idx >= i
                /\ pc \in {"loop", "done"}
                /\ \A k \in 1..Len(jobs) : jobs[k].file # all_files[i]
    /\ pc = "done" => Len(outcome) = Len(all_files)
    /\ pc \in {"loop", "done"} => prevFailed \subseteq Range(all_files)

C6_Witness ==
    /\ prevFailed # {}
    /\ \E i, j \in 1..Len(outcome) :
          /\ i < j
          /\ outcome[i].kind = "failed"
          /\ outcome[i].file \in prevFailed
          /\ outcome[j].kind = "loaded"

IsLoadArtifact(f) == EndsWith(f, "_bqload.csv") \/ EndsWith(f, "_bqload.ndjson")

\* C20: a load job is issued only for a file that no skip rule matched and
\* that, if it is a .csv, passed validate_csv; every file of the listing gets
\* exactly one outcome, so the three counters add up to the number of files
\* handled and, at the end of the run, to the length of the listing; and no
\* name ending in _bqload.csv or _bqload.ndjson is in the listing, the files
\* that this or an earlier run wrote included.
C20_OneOutcomePerFile ==
    /\ \A k \in 1..Len(jobs) :
          /\ jobs[k].file \in Range(all_files)
          /\ Accepted(jobs[k].file)
    /\ \A i \in 1..Len(outcome) :
          /\ outcome[i].file = all_files[i]
          /\ outcome[i].kind \in {"loaded", "failed"} => Accepted(outcome[i].file)
    /\ Len(outcome) = idx
    /\ loaded + skipped + failed = idx
    /\ pc = "done" => loaded + skipped + failed = Len(all_files)
    /\ \A i \in 1..Len(all_files) :
          /\ ~IsLoadArtifact(all_files[i])
          /\ all_files[i] \notin written

\* a second run has ended with one file loaded, one skipped and one failed,
\* while the directory holds the _bqload files of the first run
C20_Witness ==
    /\ pc = "done"
    /\ prevFailed # {}
    /\ loaded >= 1
    /\ skipped >= 1
    /\ failed >= 1
    /\ Len(all_files) = MaxFiles
    /\ \E f \in disk : IsLoadArtifact(f) /\ f \notin written

-----------------------------------------------------------------------------
(* The study of one function: input holds the arguments, output the result *)

LoadIdle ==
    /\ disk = {}
    /\ content = <<>>
    /\ all_files = <<>>
    /\ idx = 0
    /\ loaded = 0
    /\ skipped = 0
    /\ failed = 0
    /\ outcome = <<>>
    /\ jobs = <<>>
    /\ written = {}
    /\ pc = "idle"
    /\ prevFailed = {}

Pending == output = <<>>

Result == output[1]

-----------------------------------------------------------------------------
(* should_skip_file on any directory *)

GateNames == {
    "d_cleancsv.csv", "d_clean.csv",
    "mies_b_cleancsv.csv", "mies_b_clean.csv",
    "MREMH_p_cleancsv.csv",
    "e_cleancsv.csv_cleancsv.csv", "e_cleancsv.csv_clean.csv", "e_clean.csv",
    "d_clean.json", "d_cleanjson.json", "d_cleanbin.json",
    "api_20240101120000_expanded.ndjson" }

MaxGateFiles == 3

InitGate ==
    /\ LoadIdle
    /\ TransformIdle
    /\ \E S \in SUBSET GateNames :
          /\ 1 <= Cardinality(S)
          /\ Cardinality(S) <= MaxGateFiles
          /\ \E f \in S : input = [files |-> S, filename |-> f]
    /\ output = <<>>

GateDecide ==
    /\ Pending
    /\ output' = <<should_skip_file(input.filename, input.files)>>
    /\ UNCHANGED input
    /\ UNCHANGED notFn

NextGate == GateDecide

SpecGate == InitGate /\ [][NextGate]_vars

\* base names x of the pairs x_cleancsv.csv, x_clean.csv among GateNames
BaseNames == {"d", "mies_b", "MREMH_p", "e_cleancsv.csv"}

\* rules 1 to 4 do not apply to the files named after x
NoEarlierRule(x) ==
    /\ ~Contains(Lower(x), "mies_")
    /\ ~Contains(Lower(x), "mremh_")

Superseded == Skip("Duplicado de _clean.csv")

\* C4: for every base name x that no earlier rule applies to, x_cleancsv.csv
\* is skipped as superseded when x_clean.csv is present too, x_clean.csv is
\* then skipped by no rule, and x_cleancsv.csv is not skipped as superseded
\* when x_clean.csv is absent.
C4_SupersededBySibling ==
    \A x \in BaseNames :
        LET dup == x \o "_cleancsv.csv"
            canonical == x \o "_clean.csv"
        IN NoEarlierRule(x) /\ ~Pending /\ input.filename = dup =>
              IF canonical \in input.files
              THEN /\ Result = Superseded
                   /\ ~should_skip_file(canonical, input.files).skip
              ELSE Result # Superseded

-----------------------------------------------------------------------------
(* The table name of two artifacts that differ in their timestamp only *)

Stems == {"api_clima", "d", "mies_bonos_2025", "a_1234567", "Mi Tabla-1"}

\* timestamp parts: eight digits or more
Stamps == {"20240101", "20240101120000", "20250630235959", "123456789"}

Tails == {"_expanded.ndjson", "_cleancsv.csv", "_clean.csv", ".ndjson",
          "_items_expanded.ndjson", "_v2.csv", ""}

Stamped(stem, stamp, tail) == stem \o "_" \o stamp \o tail

InitNames ==
    /\ LoadIdle
    /\ TransformIdle
    /\ input \in [stem : Stems, first : Stamps, second : Stamps, tail : Tails]
    /\ output = <<>>

NamesDerive ==
    /\ Pending
    /\ output' = << <<table_name(Stamped(input.stem, input.first, input.tail)),
                     table_name(Stamped(input.stem, input.second, input.tail))>> >>
    /\ UNCHANGED input
    /\ UNCHANGED notFn

NextNames == NamesDerive

SpecNames == InitNames /\ [][NextNames]_vars

\* C7: two file names that differ only in their timestamp part, an underscore
\* followed by 8 or more digits, derive the same table name.
C7_TableNameStable == ~Pending => Result[1] = Result[2]

C7_Witness ==
    /\ ~Pending
    /\ input.first # input.second
    /\ input.stem = "api_clima"
    /\ Result = <<"api_clima", "api_clima">>

-----------------------------------------------------------------------------
(* The transform run *)

ClimaGood ==
    PyDict(<< <<"latitude", PyInt(1)>>,
              <<"hourly", PyDict(<< <<"time", PyList(<<PyStr("t0")>>)>>,
                                    <<"temperature_2m", PyList(<<PyInt(10)>>)>> >>)>> >>)

\* a weather document whose hourly block is null
ClimaNullHourly == PyDict(<< <<"latitude", PyInt(1)>>, <<"hourly", PyNone>> >>)

UsgsFeed ==
    PyDict(<< <<"features", PyList(<<
        PyDict(<< <<"type", PyStr("Feature")>>,
                  <<"properties", PyDict(<< <<"mag", PyFloat(45)>> >>)>>,
                  <<"geometry", PyDict(<< <<"coordinates", PyStr("[-80.1,-2.2,10]")>> >>)>>,
                  <<"id", PyStr("us1")>> >>) >>)>> >>)

Tabla == CsvFile(<<"Provincia", "Monto Total">>, << <<PyStr("Guayas"), PyInt(10)>> >>)

Otros == PyDict(<< <<"nombre", PyStr("x")>>, <<"tags", PyList(<<PyStr("a")>>)>> >>)

Releases ==
    PyDict(<< <<"releases", PyList(<<
        PyDict(<< <<"id", PyStr("r1")>>,
                  <<"awards", PyList(<<
                      PyDict(<< <<"id", PyStr("a1")>>,
                                <<"items", PyList(<<
                                    PyDict(<< <<"id", PyStr("i1")>>,
                                              <<"quantity", PyInt(2)>> >>) >>)>> >>) >>)>>
               >>) >>)>> >>)

RawNames == {"api_clima_1.json", "api_sismos_usgs_1.json", "datos_1.csv",
             "otros_1.json", "releases_1.json", "tmp"}

\* what a file of each name may hold
RawContents(name) ==
    CASE name = "api_clima_1.json" -> {JsonFile(ClimaGood), JsonFile(ClimaNullHourly)}
      [] name = "api_sismos_usgs_1.json" -> {JsonFile(UsgsFeed)}
      [] name = "datos_1.csv" -> {Tabla}
      [] name = "otros_1.json" -> {JsonFile(Otros)}
      [] name = "releases_1.json" -> {JsonFile(Releases)}
      [] name = "tmp" -> {DirEntry}

MaxRawFiles == 3

MaxClock == 2

InitTransform ==
    /\ LoadIdle
    /\ \E S \in SUBSET RawNames :
          /\ 1 <= Cardinality(S)
          /\ Cardinality(S) <= MaxRawFiles
          /\ raw \in {f \in [S -> UNION {RawContents(n) : n \in S}] :
                         \A n \in S : f[n] \in RawContents(n)}
    /\ raw_files = <<>>
    /\ handled = 0
    /\ processed = <<>>
    /\ tpc = "start"
    /\ clock = 1
    /\ previous = <<>>
    /\ input = <<>>
    /\ output = <<>>

\* lines 326-329: the sorted listing of data/raw
TransformList ==
    /\ raw_files' = Sorted(DOMAIN raw)
    /\ handled' = 0
    /\ tpc' = "loop"
    /\ UNCHANGED <<raw, processed, clock>>

TransformStart ==
    /\ tpc = "start"
    /\ TransformList
    /\ UNCHANGED previous
    /\ UNCHANGED notTransform

InTransformLoop == tpc = "loop" /\ handled < Len(raw_files)

ThisFile == raw_files[handled + 1]

Loaded == load_file_dynamic(RAW_DIR \o "/" \o ThisFile, raw[ThisFile])

\* line 334: the file cannot be read
Unreadable == ~IsRaised(Loaded) /\ Loaded.v[1] = "none"

\* an exception leaves the body of the loop
Raises ==
    IF IsRaised(Loaded) THEN TRUE
    ELSE /\ ~Unreadable
         /\ IsRaised(Outputs(ThisFile, Loaded.v[1], Loaded.v[2], Isoformat(clock)))

\* lines 334-336
TransformSkip ==
    /\ InTransformLoop
    /\ Unreadable
    /\ handled' = handled + 1
    /\ UNCHANGED <<raw, raw_files, processed, tpc, clock, previous>>
    /\ UNCHANGED notTransform

\* lines 329-458 hold no try: the exception ends main
TransformRaise ==
    /\ InTransformLoop
    /\ Raises
    /\ tpc' = "crashed"
    /\ UNCHANGED <<raw, raw_files, handled, processed, clock, previous>>
    /\ UNCHANGED notTransform

\* lines 338-455 on the branch route of the if/elif chain
FileStep(route) ==
    /\ InTransformLoop
    /\ ~Unreadable
    /\ Route(ThisFile, Loaded.v[1]) = route
    /\ ~Raises
    /\ \E now \in clock..MaxClock :
          /\ clock' = now
          /\ processed' = WriteAll(processed,
                                   Outputs(ThisFile, Loaded.v[1], Loaded.v[2],
                                           Isoformat(now)).v)
    /\ handled' = handled + 1
    /\ UNCHANGED <<raw, raw_files, tpc, previous>>
    /\ UNCHANGED notTransform

TransformClima == FileStep("clima")

TransformSismos == FileStep("sismos")

TransformReleases == FileStep("releases")

TransformCsv == FileStep("csv")

TransformJson == FileStep("json")

\* line 460
TransformFinish ==
    /\ tpc = "loop"
    /\ handled = Len(raw_files)
    /\ tpc' = "done"
    /\ UNCHANGED <<raw, raw_files, handled, processed, clock, previous>>
    /\ UNCHANGED notTransform

\* main is started again on the same data/raw
TransformRerun ==
    /\ tpc \in {"done", "crashed"}
    /\ previous' = IF tpc = "done" THEN <<processed>> ELSE previous
    /\ TransformList
    /\ UNCHANGED notTransform

NextTransform ==
    \/ TransformStart
    \/ TransformSkip
    \/ TransformRaise
    \/ TransformClima
    \/ TransformSismos
    \/ TransformReleases
    \/ TransformCsv
    \/ TransformJson
    \/ TransformFinish
    \/ TransformRerun

SpecTransform == InitTransform /\ [][NextTransform]_vars

\* the run is over, by its completion step or by an exception
RunOver == tpc \in {"done", "crashed"}

\* C2: when a transform run is over, every file of the sorted listing was
\* handled and the run reached its completion step, whatever failed while a
\* file was read or expanded.
C2_FailureConfined == RunOver => tpc = "done" /\ handled = Len(raw_files)

IdOf(record) == Get(record, "id_registro")

\* C3: a complete run, after an earlier complete run on the same data/raw,
\* gives every record of every output file the id_registro the earlier run
\* gave it, whatever the processing times of the two runs.
C3_IdsStable ==
    tpc = "done" /\ previous # <<>> =>
        \A f \in DOMAIN processed \cap DOMAIN previous[1] :
            /\ Len(processed[f]) = Len(previous[1][f])
            /\ \A i \in 1..Len(processed[f]) :
                  IdOf(processed[f][i]) = IdOf(previous[1][f][i])

-----------------------------------------------------------------------------
(* The Weather Expander on one document *)

MaxHours == 2

\* the time arrays ["t0", "t1", ...] of up to MaxHours hours
TimeArrays == {[i \in 1..n |-> PyStr("t" \o NatToStr(i - 1))] : n \in 0..MaxHours}

TempValues == {PyInt(10), PyInt(11)}

TempArrays == UNION {[1..n -> TempValues] : n \in 0..MaxHours}

\* the top-level items of a document, beside its hourly block
Tops == {
    <<>>,
    << <<"latitude", PyInt(1)>>, <<"longitude", PyInt(2)>> >>,
    << <<"latitude", PyFloat(-22)>>, <<"longitude", PyFloat(-801)>>,
       <<"timezone", PyStr("GMT")>>,
       <<"hourly_units", PyDict(<< <<"temperature_2m", PyStr("C")>> >>)>> >> }

\* an array as the document holds it: native, or as its JSON text
Shapes == {"array", "text"}

Shaped(q, shape) == IF shape = "array" THEN PyList(q) ELSE PyStr(JsonDumps(PyList(q), FALSE))

ClimaDoc(top, time, temp, shape) ==
    PyDict(top \o << <<"hourly", PyDict(<< <<"time", Shaped(time, shape)>>,
                                           <<"temperature_2m", Shaped(temp, shape)>> >>)>> >>)

\* documents of another shape
OddDocs == {ClimaNullHourly,
            PyDict(<< <<"latitude", PyInt(1)>> >>),
            PyDict(<< <<"latitude", PyInt(1)>>, <<"hourly", PyStr("x")>> >>),
            PyDict(<< <<"latitude", PyInt(1)>>, <<"hourly", PyList(<<>>)>> >>),
            PyDict(<< <<"latitude", PyInt(1)>>, <<"hourly", PyDict(<<>>)>> >>),
            PyDict(<< <<"hourly", PyDict(<< <<"time", PyStr("abc")>>,
                                            <<"temperature_2m", PyList(<<PyInt(10)>>)>>
                                         >>)>> >>),
            PyDict(<< <<"hourly", PyDict(<< <<"time", PyList(<<PyStr("t0")>>)>>,
                                            <<"temperature_2m", PyStr("10,")>> >>)>> >>),
            PyList(<<ClimaGood>>)}

ClimaDocs ==
    {ClimaDoc(top, time, temp, shape) :
        top \in Tops, time \in TimeArrays, temp \in TempArrays, shape \in Shapes}
    \cup OddDocs

ClimaFile == "api_clima_1.json"

ClimaInstant == Isoformat(1)

InitClima ==
    /\ LoadIdle
    /\ TransformIdle
    /\ input \in [obj : ClimaDocs]
    /\ output = <<>>

ClimaExpand ==
    /\ Pending
    /\ output' = <<expand_clima(input.obj, ClimaFile, ClimaInstant, BaseName(ClimaFile))>>
    /\ UNCHANGED input
    /\ UNCHANGED notFn

NextClima == ClimaExpand

SpecClima == InitClima /\ [][NextClima]_vars

\* the hourly block of obj holds a time array and a temperature array
HoldsArrays(obj) ==
    /\ IsDict(obj)
    /\ IsDict(Get(obj, "hourly"))
    /\ IsList(Get(Get(obj, "hourly"), "time"))
    /\ IsList(Get(Get(obj, "hourly"), "temperature_2m"))

TimeOf(obj) == Get(Get(obj, "hourly"), "time").v

TempOf(obj) == Get(Get(obj, "hourly"), "temperature_2m").v

\* C8: when the hourly block holds a time array and a temperature array of
\* equal length n, expand_clima emits exactly n records, the i-th with
\* time[i], temperature_2m[i] and the document's latitude and longitude.
C8_OneRecordPerHour ==
    /\ ~Pending
    /\ HoldsArrays(input.obj)
    /\ Len(TimeOf(input.obj)) = Len(TempOf(input.obj))
    => /\ ~IsRaised(Result)
       /\ Len(Result.v) = Len(TimeOf(input.obj))
       /\ \A i \in 1..Len(TimeOf(input.obj)) :
             /\ Get(Result.v[i], "time") = TimeOf(input.obj)[i]
             /\ Get(Result.v[i], "temperature_2m") = TempOf(input.obj)[i]
             /\ Get(Result.v[i], "latitude") = Get(input.obj, "latitude")
             /\ Get(Result.v[i], "longitude") = Get(input.obj, "longitude")

Injected == {"fuente_archivo", "fecha_proceso_utc", "id_registro"}

\* C9: when the time array and the temperature array have different
\* lengths, expand_clima emits exactly one record, the fallback record: it
\* holds every top-level key of the input (a scalar as it is, any other value
\* as its JSON text) and the three injected fields, and it is no per-index
\* record.
C9_MismatchFallsBack ==
    /\ ~Pending
    /\ HoldsArrays(input.obj)
    /\ Len(TimeOf(input.obj)) # Len(TempOf(input.obj))
    => /\ ~IsRaised(Result)
       /\ Len(Result.v) = 1
       /\ Keys(Result.v[1]) = Keys(input.obj) \cup Injected
       /\ \A k \in Keys(input.obj) :
             Get(Result.v[1], k) = IF IsScalar(Get(input.obj, k)) THEN Get(input.obj, k)
                                   ELSE PyStr(JsonDumps(Get(input.obj, k), FALSE))
       /\ Get(Result.v[1], "fuente_archivo") = PyStr(ClimaFile)
       /\ Get(Result.v[1], "fecha_proceso_utc") = PyStr(ClimaInstant)
       /\ IdOf(Result.v[1]) = PyStr(Md5Hex(BaseName(ClimaFile) \o "_fallback"))
       /\ ~HasKey(Result.v[1], "time")
       /\ ~HasKey(Result.v[1], "temperature_2m")

\* the document {"hourly": {"time": ["t0"], "temperature_2m": [10, 11]}} gave
\* one record, with the hourly block as text
C9_Witness ==
    /\ ~Pending
    /\ input.obj = ClimaDoc(<<>>, <<PyStr("t0")>>, <<PyInt(10), PyInt(11)>>, "array")
    /\ Len(Result.v) = 1
    /\ Get(Result.v[1], "hourly").v = "{\"time\": [\"t0\"], \"temperature_2m\": [10, 11]}"

\* field as the array expand_clima makes of it (lines 139-140)
AsArray(field) == IF IsList(field) THEN field ELSE try_parse_json_like(field)

\* obj is an object whose hourly field is absent, null or no object, or whose
\* time or temperature field is absent or cannot be parsed as an array
MalformedHourly(obj) ==
    /\ IsDict(obj)
    /\ \/ ~IsDict(Get(obj, "hourly"))
       \/ ~IsList(AsArray(Get(Get(obj, "hourly"), "time")))
       \/ ~IsList(AsArray(Get(Get(obj, "hourly"), "temperature_2m")))

\* C18 as the claim states it: for every object document with a malformed
\* hourly block expand_clima raises nothing and emits exactly one record, the
\* fallback record.
C18_MalformedHourlyFallsBack ==
    /\ ~Pending
    /\ MalformedHourly(input.obj)
    => /\ ~IsRaised(Result)
       /\ Len(Result.v) = 1
       /\ IdOf(Result.v[1]) = PyStr(Md5Hex(BaseName(ClimaFile) \o "_fallback"))

-----------------------------------------------------------------------------
(* The Seismic Expander on a feed of one feature, its coordinates given as   *)
(* text and as an array                                                       *)

Longitudes == {PyFloat(-801), PyFloat(-795), PyInt(-80)}

Latitudes == {PyFloat(-22), PyInt(0), PyFloat(15)}

Depths == {PyInt(10), PyFloat(105), PyInt(0)}

\* how the text writes the array: as json.dumps does, or without spaces
Styles == {"dumps", "compact"}

Encoded(coordinates, style) ==
    IF style = "dumps" THEN JsonDumps(coordinates, FALSE)
    ELSE Replace(JsonDumps(coordinates, FALSE), ", ", ",")

OneFeatureFeed(coordinates) ==
    PyDict(<< <<"type", PyStr("FeatureCollection")>>,
              <<"features", PyList(<<
                  PyDict(<< <<"type", PyStr("Feature")>>,
                            <<"properties", PyDict(<< <<"mag", PyFloat(45)>> >>)>>,
                            <<"geometry", PyDict(<< <<"type", PyStr("Point")>>,
                                                    <<"coordinates", coordinates>> >>)>>,
                            <<"id", PyStr("us1")>> >>) >>)>> >>)

SismosFile == "api_sismos_usgs_1.json"

InitSismos ==
    /\ LoadIdle
    /\ TransformIdle
    /\ input \in [lon : Longitudes, lat : Latitudes, depth : Depths, style : Styles]
    /\ output = <<>>

Coordinates == PyList(<<input.lon, input.lat, input.depth>>)

SismosExpand ==
    /\ Pending
    /\ output' = <<[encoded |-> expand_sismos_list(
                                    OneFeatureFeed(PyStr(Encoded(Coordinates, input.style))),
                                    SismosFile, ClimaInstant),
                    native |-> expand_sismos_list(OneFeatureFeed(Coordinates),
                                                  SismosFile, ClimaInstant)]>>
    /\ UNCHANGED input
    /\ UNCHANGED notFn

NextSismos == SismosExpand

SpecSismos == InitSismos /\ [][NextSismos]_vars

\* record has the fields longitude, latitude and depth of the coordinates
HasPosition(record) ==
    /\ HasKey(record, "longitude")
    /\ HasKey(record, "latitude")
    /\ HasKey(record, "depth")
    /\ Get(record, "longitude") = input.lon
    /\ Get(record, "latitude") = input.lat
    /\ Get(record, "depth") = input.depth

\* C10 as the claim states it: the record emitted for the coordinates given as
\* text has fields longitude, latitude and depth equal to the three decoded
\* numbers, as has the record emitted for the native array.
C10_PositionFields ==
    ~Pending =>
        /\ ~IsRaised(Result.encoded)
        /\ Len(Result.encoded.v) = 1
        /\ HasPosition(Result.encoded.v[1])
        /\ ~IsRaised(Result.native)
        /\ Len(Result.native.v) = 1
        /\ HasPosition(Result.native.v[1])

\* C10: for a feed with one feature whose geometry.coordinates is the text of
\* a 3-element array, one record is emitted; its field geometry.coordinates is
\* the array of the three decoded numbers, the record is the one emitted when
\* the coordinates are a native array, and the load stage flattens it to the
\* field geometry_coordinates holding the JSON text of the array.
C10_CoordinatesDecoded ==
    ~Pending =>
        /\ ~IsRaised(Result.encoded)
        /\ Len(Result.encoded.v) = 1
        /\ Get(Result.encoded.v[1], "geometry.coordinates") = Coordinates
        /\ Result.encoded = Result.native
        /\ Get(CleanedRecord(Result.encoded.v[1]), "geometry_coordinates")
              = PyStr(JsonDumps(Coordinates, FALSE))

\* the coordinates "[-80.1,-2.2,10]" were decoded
C10_Witness ==
    /\ ~Pending
    /\ Encoded(Coordinates, input.style) = "[-80.1,-2.2,10]"
    /\ Get(Result.encoded.v[1], "geometry.coordinates")
          = PyList(<<PyFloat(-801), PyFloat(-22), PyInt(10)>>)

-----------------------------------------------------------------------------
(* The Procurement Expander on a document of one or two releases *)

MaxAwards == 2

MaxItems == 2

\* how a release is identified: by id, by ocid, or by neither
Idents == {"id", "ocid", "none"}

\* how the document holds its releases: under the key releases, as a list,
\* or as the one release it is
Wraps == {"key", "list", "bare"}

\* the number of items of each award of a release
ItemCounts == UNION {[1..n -> 0..MaxItems] : n \in 0..MaxAwards}

Description(tag, j, k) == PyStr(tag \o NatToStr(j) \o NatToStr(k))

\* item k of award j: every second item has no id
LineItem(tag, j, k) ==
    PyDict((IF k % 2 = 1 THEN << <<"id", PyStr("i" \o NatToStr(k))>> >> ELSE <<>>)
           \o << <<"description", Description(tag, j, k)>>,
                 <<"quantity", PyInt(k)>> >>)

\* award j with n items: every second award has no id
Award(tag, j, n) ==
    PyDict((IF j % 2 = 1 THEN << <<"id", PyStr("a" \o NatToStr(j))>> >> ELSE <<>>)
           \o << <<"items", PyList([k \in 1..n |-> LineItem(tag, j, k)])>> >>)

Release(tag, ident, counts) ==
    PyDict((CASE ident = "id" -> << <<"id", PyStr(tag)>> >>
              [] ident = "ocid" -> << <<"ocid", PyStr("ocds-" \o tag)>> >>
              [] ident = "none" -> <<>>)
           \o << <<"date", PyStr("2024-01-01")>>,
                 <<"awards", PyList([j \in 1..Len(counts) |->
                                        Award(tag, j, counts[j])])>> >>)

\* the release of the example: one award of two items
SecondRelease == Release("s", "id", <<2>>)

SercopReleases(in) ==
    <<Release("r", in.ident, in.counts)>>
    \o (IF in.more THEN <<SecondRelease>> ELSE <<>>)

SercopDoc(in) ==
    CASE in.wrap = "key" -> PyDict(<< <<"releases", PyList(SercopReleases(in))>> >>)
      [] in.wrap = "list" -> PyList(SercopReleases(in))
      [] in.wrap = "bare" -> SercopReleases(in)[1]

SercopFile == "releases_1.json"

InitSercop ==
    /\ LoadIdle
    /\ TransformIdle
    /\ input \in {in \in [ident : Idents, counts : ItemCounts, wrap : Wraps,
                          more : BOOLEAN] : in.wrap = "bare" => ~in.more}
    /\ output = <<>>

SercopExpand ==
    /\ Pending
    /\ output' = <<expand_sercop_releases(SercopDoc(input), SercopFile, ClimaInstant)>>
    /\ UNCHANGED input
    /\ UNCHANGED notFn

NextSercop == SercopExpand

SpecSercop == InitSercop /\ [][NextSercop]_vars

\* the descriptions of the line items of a release, award after award
Descriptions(tag, counts) ==
    Concat([j \in 1..Len(counts) |-> [k \in 1..counts[j] |-> Description(tag, j, k)]])

\* yielded[from] is a release-level record and the entries after it are the
\* item-level records of the items described, one each and in their order,
\* with the release_id of the release-level record
Segment(yielded, from, descriptions) ==
    /\ Len(yielded) >= from + Len(descriptions)
    /\ yielded[from].t = "release"
    /\ HasKey(yielded[from].v, "release_id")
    /\ ~IsNone(Get(yielded[from].v, "release_id"))
    /\ \A i \in 1..Len(descriptions) :
          /\ yielded[from + i].t = "item"
          /\ Get(yielded[from + i].v, "description") = descriptions[i]
          /\ Get(yielded[from + i].v, "release_id") = Get(yielded[from].v, "release_id")

\* C11: for every release, expand_sercop_releases emits one release-level
\* record, followed by one item-level record per line item of every award of
\* that release, and all of these records carry the same release_id.
C11_ReleaseThenItems ==
    ~Pending =>
        LET first == Descriptions("r", input.counts)
            second == Descriptions("s", <<2>>)
        IN /\ ~IsRaised(Result)
           /\ Len(Result.v) = 1 + Len(first) + (IF input.more THEN 1 + Len(second) ELSE 0)
           /\ Segment(Result.v, 1, first)
           /\ input.more => Segment(Result.v, 2 + Len(first), second)

\* a release with one award of two items gave one release-level record and
\* two item-level records with its release_id
C11_Witness ==
    /\ ~Pending
    /\ input.counts = <<2>>
    /\ input.ident = "id"
    /\ ~input.more
    /\ Len(Result.v) = 3
    /\ Result.v[1].t = "release"
    /\ Result.v[2].t = "item"
    /\ Result.v[3].t = "item"
    /\ \A i \in 1..3 : Get(Result.v[i].v, "release_id") = PyStr("r")

-----------------------------------------------------------------------------
(* The Column Sanitizer on any short name *)

MaxNameLen == 3

\* one character of every kind the sanitizer tells apart
NameChars == {"a", "B", "1", "_", ".", " ", "(", "#", "\t", BOM}

RECURSIVE NamesOfLen(_)
NamesOfLen(n) ==
    IF n = 0 THEN {""} ELSE {c \o rest : c \in NameChars, rest \in NamesOfLen(n - 1)}

SanitizerNames == UNION {NamesOfLen(n) : n \in 0..MaxNameLen}

InitSanitize ==
    /\ LoadIdle
    /\ TransformIdle
    /\ input \in [name : SanitizerNames]
    /\ output = <<>>

Sanitize ==
    /\ Pending
    /\ output' = <<[once |-> clean_bq_column(input.name),
                    twice |-> clean_bq_column(clean_bq_column(input.name))]>>
    /\ UNCHANGED input
    /\ UNCHANGED notFn

NextSanitize == Sanitize

SpecSanitize == InitSanitize /\ [][NextSanitize]_vars

\* C12: the Column Sanitizer is idempotent: for every name x,
\* clean_bq_column(clean_bq_column(x)) = clean_bq_column(x).
C12_SanitizerIdempotent == ~Pending => Result.twice = Result.once

\* "1 B" gave col_1_b, and col_1_b gave itself
C12_Witness ==
    /\ ~Pending
    /\ input.name = "1 B"
    /\ Result.once = "col_1_b"
    /\ Result.twice = "col_1_b"

\* s starts with a lower-case letter and holds lower-case letters, digits and
\* underscores only
IsIdentifier(s) ==
    /\ s # ""
    /\ Ch(s, 1) \in LowerLetters
    /\ \A i \in 1..Len(s) : Ch(s, i) \in LowerLetters \cup Digits \cup {"_"}

\* C13: for every name the Column Sanitizer returns 'unnamed' or a text that
\* starts with a lower-case letter and holds only lower-case letters, digits
\* and underscores; it is never empty and never starts with a digit or an
\* underscore.
C13_SanitizerOutputShape ==
    ~Pending =>
        /\ Result.once = "unnamed" \/ IsIdentifier(Result.once)
        /\ Result.once # ""
        /\ Ch(Result.once, 1) \notin Digits \cup {"_"}

\* "#" gave unnamed, or "_1#" gave col_1
C13_Witness ==
    /\ ~Pending
    /\ \/ input.name = "#" /\ Result.once = "unnamed"
       \/ input.name = "_1#" /\ Result.once = "col_1"

-----------------------------------------------------------------------------
(* The Readers on one text file.  pd.read_csv is outside the repository: at  *)
(* each attempt it raises or returns a table, the table it makes of the text  *)
(* with the comma as delimiter.                                               *)

ReaderTexts == {"", "\n\n", "a,b\n1,2\n", "a;b\n1;2\n", "1,2\n3,4\n",
                "id,valor\n1,2\n", "x\ny\n", "7\n8\n", "a,b,c\n1,2\n"}

ReaderPaths == {"data/raw/datos_1.csv", "data/raw/otros_1.json", "data/raw/otros_1.bin"}

\* the table pd.read_csv returns: the first line names the columns, every
\* other line is a row; the cells are held as their text
Parsed(text) ==
    With([i \in 1..Len(Lines(text)) |-> Split(Lines(text)[i], ",")], LAMBDA rows :
        CsvFile(rows[1],
                [i \in 1..(Len(rows) - 1) |->
                    [j \in 1..Len(rows[1]) |->
                        IF j <= Len(rows[i + 1]) THEN PyStr(rows[i + 1][j]) ELSE PyNone]]))

\* pd.read_csv raises on a text without a line that is not blank
OnlyBlank(text) == \A i \in 1..Len(Lines(text)) : Strip(Lines(text)[i], WhiteSpace) = ""

InitReaders ==
    /\ LoadIdle
    /\ TransformIdle
    /\ input \in {in \in [path : ReaderPaths, text : ReaderTexts,
                          ok : SUBSET (1..3)] :
                     OnlyBlank(in.text) => in.ok = {}}
    /\ output = <<>>

\* the file the arguments describe
ReaderFile ==
    TextFile(input.text,
             [k \in 1..3 |-> IF k \in input.ok THEN Yield(Parsed(input.text)) ELSE Raised])

ReadersRead ==
    /\ Pending
    /\ output' = <<[df |-> read_csv_robusto(ReaderFile),
                    parsed |-> load_json_file(ReaderFile),
                    dynamic |-> load_file_dynamic(input.path, ReaderFile)]>>
    /\ UNCHANGED input
    /\ UNCHANGED notFn

NextReaders == ReadersRead

SpecReaders == InitReaders /\ [][NextReaders]_vars

\* the cells of a row that are not None, joined by commas
RowText(row) ==
    JoinAll([j \in 1..Len(row) |->
                IF IsNone(row[j]) THEN ""
                ELSE (IF j > 1 THEN "," ELSE "") \o row[j].v])

\* the number of columns the longest line has
Widest(lines) ==
    IF lines = <<>> THEN 0
    ELSE 1 + CHOOSE n \in {Count(lines[i], ",") : i \in 1..Len(lines)} :
                 \A i \in 1..Len(lines) : Count(lines[i], ",") <= n

\* C14: read_csv_robusto raises on no text; when every attempt fails it
\* returns the table of the lines split on commas, one row per line, with
\* the columns named col_0, col_1, ... by position.
C14_ReaderNeverRaises ==
    ~Pending =>
        /\ ~IsRaised(Result.df)
        /\ input.ok = {} =>
              LET lines == Lines(input.text)
                  table == Result.df.v
              IN /\ Len(table.rows) = Len(lines)
                 /\ Len(table.columns) = Widest(lines)
                 /\ \A j \in 1..Len(table.columns) :
                       table.columns[j] = "col_" \o NatToStr(j - 1)
                 /\ \A i \in 1..Len(lines) :
                       /\ Len(table.rows[i]) = Len(table.columns)
                       /\ RowText(table.rows[i]) = Strip(lines[i], WhiteSpace)

\* every attempt failed on "a,b,c\n1,2\n": two rows under col_0, col_1, col_2
C14_Witness ==
    /\ ~Pending
    /\ input.text = "a,b,c\n1,2\n"
    /\ input.ok = {}
    /\ Result.df.v.columns = <<"col_0", "col_1", "col_2">>
    /\ Len(Result.df.v.rows) = 2
    /\ Result.df.v.rows[1] = <<PyStr("a"), PyStr("b"), PyStr("c")>>
    /\ Result.df.v.rows[2][1] = PyStr("1")
    /\ IsNone(Result.df.v.rows[2][3])

\* C15 as the claim states it: when the attempt that succeeds yields a single
\* column, the reader goes on to the next fallback and does not return that
\* table.
C15_SingleColumnNotAccepted ==
    /\ ~Pending
    /\ input.ok # {}
    /\ Len(Parsed(input.text).columns) = 1
    => Result.df.v # Parsed(input.text)

\* C16 as the claim states it: when the trimmed text starts with a character
\* other than '{' and '[', load_json_file reports a miss and load_file_dynamic
\* returns a tabular result, also when lines of the text parse as literals.
C16_MissFallsBackToTabular ==
    /\ ~Pending
    /\ Ext(input.path) # "csv"
    /\ Strip(input.text, WhiteSpace) # ""
    /\ Ch(Strip(input.text, WhiteSpace), 1) \notin {"{", "["}
    => /\ IsNone(Result.parsed)
       /\ ~IsRaised(Result.dynamic)
       /\ Result.dynamic.v[1] = "csv"

-----------------------------------------------------------------------------
(* The load-stage clean-up on one record of two or three fields *)

MaxFields == 3

\* source field names, some of which clean_bq_column maps to one identifier
FieldNames == {"Monto Total", "monto_total", "monto-total", "a.b", "a_b", "id", "1x"}

\* the records: distinct field names in any order, the i-th field holding i
FieldLists ==
    {names \in UNION {[1..n -> FieldNames] : n \in 2..MaxFields} :
        \A i, j \in 1..Len(names) : i # j => names[i] # names[j]}

InitCleanup ==
    /\ LoadIdle
    /\ TransformIdle
    /\ input \in [names : FieldLists]
    /\ output = <<>>

\* the line of the .ndjson file and the table of the .csv file that hold the
\* record, and what the clean-up writes for each
Cleanup ==
    /\ Pending
    /\ output' = <<[ndjson |-> CleanedRecord(
                                   PyDict([i \in 1..Len(input.names) |->
                                              <<input.names[i], PyInt(i)>>])).v,
                    csv |-> LET df == process_csv(
                                          CsvFile(input.names,
                                                  <<[i \in 1..Len(input.names) |->
                                                        PyInt(i)]>>))
                            IN [i \in 1..Len(df.columns) |->
                                   <<df.columns[i], df.rows[1][i]>>]]>>
    /\ UNCHANGED input
    /\ UNCHANGED notFn

NextCleanup == Cleanup

SpecCleanup == InitCleanup /\ [][NextCleanup]_vars

\* the fields written have distinct names, one for every identifier the
\* source names sanitize to, each holding the value of the last source field
\* of that identifier
MergedLastWins(fields) ==
    /\ \A i, j \in 1..Len(fields) : i # j => fields[i][1] # fields[j][1]
    /\ {fields[i][1] : i \in 1..Len(fields)}
          = {clean_bq_column(input.names[i]) : i \in 1..Len(input.names)}
    /\ \A i \in 1..Len(fields) :
          \E k \in 1..Len(input.names) :
              /\ clean_bq_column(input.names[k]) = fields[i][1]
              /\ \A later \in (k + 1)..Len(input.names) :
                    clean_bq_column(input.names[later]) # fields[i][1]
              /\ fields[i][2] = PyInt(k)

\* C17 as the claim states it: in every record process_csv and process_ndjson
\* write, the sanitized field names are unique, and source fields that
\* sanitize to one identifier are merged into one field holding the value of
\* the later one.
C17_FieldNamesUnique ==
    ~Pending => MergedLastWins(Result.ndjson) /\ MergedLastWins(Result.csv)

-----------------------------------------------------------------------------
(* The branch main takes for one raw file, by its name and its extension *)

\* the dataset tags and the branch of each
Tags == {"api_clima", "api_sismos_ec", "api_sismos_usgs", "releases"}

BranchOf(tag) ==
    CASE tag = "api_clima" -> "clima"
      [] tag = "api_sismos_ec" -> "sismos"
      [] tag = "api_sismos_usgs" -> "sismos"
      [] tag = "releases" -> "releases"

Extensions == {"json", "csv", "bin"}

\* names with a tag at the start or after a prefix, and names without a tag
RoutedNames ==
    {before \o tag \o "_1." \o ext :
        before \in {"", "datos_"}, tag \in Tags, ext \in Extensions}
    \cup {"otros_1." \o ext : ext \in Extensions}

RoutedFiles == {JsonFile(ClimaGood), JsonFile(UsgsFeed), JsonFile(Releases), Tabla}

InitRoute ==
    /\ LoadIdle
    /\ TransformIdle
    /\ input \in [name : RoutedNames, file : RoutedFiles]
    /\ output = <<>>

\* lines 332-457: the file is read by its extension, a file that could not
\* be read is skipped, then the if/elif chain picks the branch
RouteFile ==
    /\ Pending
    /\ output' = <<With(load_file_dynamic(RAW_DIR \o "/" \o input.name, input.file),
                        LAMBDA read :
                            [ftype |-> read.v[1],
                             branch |-> IF read.v[1] = "none" THEN "skip"
                                        ELSE Route(input.name, read.v[1])])>>
    /\ UNCHANGED input
    /\ UNCHANGED notFn

NextRoute == RouteFile

SpecRoute == InitRoute /\ [][NextRoute]_vars

\* C19 as the claim states it: a file whose name contains a dataset tag, at
\* any position and whatever its extension, is handled by the branch of that
\* dataset's Expander, the name being tested before the type read.
C19_TagSelectsExpander ==
    ~Pending =>
        \A tag \in Tags :
            Contains(input.name, tag) => Result.branch = BranchOf(tag)

=============================================================================
